---- MODULE Spec2Model ----
(***************************************************************************)
(* Snake autopilot of gerd03/snakegame: GridBounds, Pathfinding,           *)
(* HamiltonianCycle, AIController and the simulateRun harness loop.        *)
(*                                                                         *)
(* Cells are records [x, z]; a body is a sequence of cells, head first.    *)
(* TLA+ sequences are 1-based: the JS index i is the TLA+ index i + 1.     *)
(***************************************************************************)
EXTENDS Integers, Sequences, FiniteSets, TLC

VARIABLES
    grid,          \* GridBounds: [width, height, minX, minZ]
    cycle,         \* HamiltonianCycle: [valid, order, indexByKey]
    bombPositions, \* AIController.bombPositions: [cells, nullEntry]
    stepCounter,   \* AIController.stepCounter
    debugStats,    \* AIController.debugStats
    headPos,       \* argument headPos of the last call (a cell)
    direction,     \* argument currentDir / harness variable direction
    segments,      \* argument occupiedCells / harness variable segments
    fruits,        \* argument foodPos (a sequence of cells)
    missing,       \* which argument of the call is null/undefined ("none" if none)
    nextDir,       \* what the last call returned
    raised,        \* TRUE when the last call ended by throwing
    pc,            \* position: "ready", "done", or the harness run's reason
    query          \* last HamiltonianCycle query: [kind, a, b, cell, result]

vars == << grid, cycle, bombPositions, stepCounter, debugStats, headPos, direction,
           segments, fruits, missing, nextDir, raised, pc, query >>

----------------------------------------------------------------------------
(* Bounds of the model *)

MaxDim == 3        \* grids of the call and harness specifications: 2..MaxDim squared
MaxCycleDim == 6   \* grids of the cycle specification
MaxLen == 4        \* longest body drawn as an input of a call
MaxFruits == 1     \* most fruit entries drawn as an input of a call
MaxBombs == 1      \* most hazard cells drawn
MaxSteps == 12     \* harness step limit (options.steps)
MaxLoopDim == 4    \* grids of the fruitless loop whose snake lies along the cycle
MaxCrowdedDim == 2  \* hasReachableFood: grids up to this size get fruit lists of any size
MaxCalls == 3       \* method calls on one instance
MaxPath == 3        \* validateShortcutPath: steps of the path
MaxTicks == 6       \* arbitration: stepCounter before the call is below this
MaxRunSteps == 8    \* simulateRun from its own start: options.steps
MaxHostTicks == 6   \* host game loop: moves of the snake

----------------------------------------------------------------------------
(* Small helpers *)

Abs(n) == IF n < 0 THEN -n ELSE n
Max(a, b) == IF a >= b THEN a ELSE b
Cell(x, z) == [x |-> x, z |-> z]
Last(s) == s[Len(s)]
Range(s) == { s[i] : i \in 1..Len(s) }

\* Array.prototype.slice(from, to) with 0-based from (inclusive) and to (exclusive,
\* clamped to the length), for from >= 0 and to >= 0
slice(s, from, to) ==
    LET end == IF to > Len(s) THEN Len(s) ELSE to
    IN  IF end <= from THEN << >> ELSE SubSeq(s, from + 1, end)

\* the JS remainder operator %: the result takes the sign of the dividend
jsRem(a, b) == IF a >= 0 THEN a % b ELSE -((-a) % b)

\* Optional values (null or a value) are sequences of length 0 or 1
Null == << >>
Some(v) == << v >>

Infinity == 1000000

\* CONFIG.gridSize of the host
gridSize == 20

----------------------------------------------------------------------------
(* GridBounds *)

GridBounds(width, height) ==
    [width |-> width, height |-> height,
     minX |-> -(width \div 2), minZ |-> -(height \div 2)]

maxX(g) == g.minX + g.width - 1
maxZ(g) == g.minZ + g.height - 1
cellCount(g) == g.width * g.height

inBounds(g, pos) ==
    /\ pos.x >= g.minX /\ pos.x <= maxX(g)
    /\ pos.z >= g.minZ /\ pos.z <= maxZ(g)

\* fromLocal without the shift by the grid's origin
fromLocalUnshifted(g, localPos) == Cell(localPos.x, localPos.z)

fromLocal(g, localPos) == Cell(g.minX + localPos.x, g.minZ + localPos.z)

\* forEachCell: x outer, z inner
forEachCell(g) ==
    [ i \in 1..cellCount(g) |->
        Cell(g.minX + ((i - 1) \div g.height), g.minZ + ((i - 1) % g.height)) ]

Cells(g) == { Cell(x, z) : x \in g.minX..maxX(g), z \in g.minZ..maxZ(g) }

key(pos) == << pos.x, pos.z >>

----------------------------------------------------------------------------
(* HamiltonianCycle *)

RECURSIVE Concat(_)
\* the rows joined, first to last
Concat(rows) ==
    IF Len(rows) = 0 THEN << >> ELSE Head(rows) \o Concat(Tail(rows))

buildCycleEvenWidth(width, height) ==
    LET top == [ i \in 1..(width - 1) |-> Cell(i, 0) ]
        row(z) == IF z % 2 = 1
                  THEN [ i \in 1..(width - 1) |-> Cell(width - i, z) ]
                  ELSE [ i \in 1..(width - 1) |-> Cell(i, z) ]
        back == [ i \in 1..(height - 1) |-> Cell(0, height - i) ]
    IN  << Cell(0, 0) >> \o top \o Concat([ z \in 1..(height - 1) |-> row(z) ]) \o back

buildCycleEvenHeight(width, height) ==
    LET left == [ i \in 1..(height - 1) |-> Cell(0, i) ]
        col(x) == IF x % 2 = 1
                  THEN [ i \in 1..(height - 1) |-> Cell(x, height - i) ]
                  ELSE [ i \in 1..(height - 1) |-> Cell(x, i) ]
        back == [ i \in 1..(width - 1) |-> Cell(width - i, 0) ]
    IN  << Cell(0, 0) >> \o left \o Concat([ x \in 1..(width - 1) |-> col(x) ]) \o back

manhattan(a, b) == Abs(a.x - b.x) + Abs(a.z - b.z)

EmptyMap == [ k \in {} |-> 0 ]

\* The fields the constructor leaves when buildCycle returns false
NoCycle == [valid |-> FALSE, order |-> << >>, indexByKey |-> EmptyMap]

\* buildCycle without the parity guard and without the validation loops
buildCycleUnchecked(g) ==
    LET localOrder == IF g.width % 2 = 0
                      THEN buildCycleEvenWidth(g.width, g.height)
                      ELSE buildCycleEvenHeight(g.width, g.height)
        order == [ i \in 1..Len(localOrder) |-> fromLocal(g, localOrder[i]) ]
        n == Len(order)
    IN  [valid |-> TRUE, order |-> order,
         indexByKey |-> [ k \in { key(order[i]) : i \in 1..n } |->
                            (CHOOSE i \in 1..n : key(order[i]) = k) - 1 ]]

\* indexByKey holds the JS (0-based) index of each cell of order
buildCycle(g) ==
    LET width == g.width
        height == g.height
    IN
    IF width < 2 \/ height < 2 THEN NoCycle
    ELSE IF width % 2 # 0 /\ height % 2 # 0 THEN NoCycle
    ELSE
    LET localOrder == IF width % 2 = 0
                      THEN buildCycleEvenWidth(width, height)
                      ELSE buildCycleEvenHeight(width, height)
    IN
    IF Len(localOrder) # width * height THEN NoCycle
    ELSE
    LET order == [ i \in 1..Len(localOrder) |-> fromLocal(g, localOrder[i]) ]
        n == Len(order)
        seenTwice == \E i, j \in 1..n : i < j /\ key(order[i]) = key(order[j])
        notAdjacent == \E i \in 1..n : manhattan(order[i], order[(i % n) + 1]) # 1
    IN
    IF seenTwice THEN NoCycle
    ELSE IF notAdjacent THEN NoCycle
    ELSE [valid |-> TRUE, order |-> order,
          indexByKey |-> [ k \in { key(order[i]) : i \in 1..n } |->
                             (CHOOSE i \in 1..n : key(order[i]) = k) - 1 ]]

isValid(cy) == cy.valid

indexOf(cy, pos) ==
    IF key(pos) \in DOMAIN cy.indexByKey THEN cy.indexByKey[key(pos)] ELSE -1

\* getCell that folds a negative remainder by its absolute value
getCellFolded(cy, index) ==
    IF ~cy.valid \/ Len(cy.order) = 0 THEN Null
    ELSE Some(cy.order[Abs(jsRem(index, Len(cy.order))) + 1])

getCell(cy, index) ==
    IF ~cy.valid \/ Len(cy.order) = 0 THEN Null
    ELSE LET n == Len(cy.order)
             wrapped == jsRem(jsRem(index, n) + n, n)
         IN  Some(cy.order[wrapped + 1])

getNextCell(cy, pos) ==
    LET index == indexOf(cy, pos)
    IN  IF index < 0 THEN Null ELSE getCell(cy, index + 1)

\* distanceForward without "+ this.order.length"
distanceForwardUnwrapped(cy, fromIndex, toIndex) ==
    IF ~cy.valid \/ Len(cy.order) = 0 THEN Infinity
    ELSE jsRem(toIndex - fromIndex, Len(cy.order))

distanceForward(cy, fromIndex, toIndex) ==
    IF ~cy.valid \/ Len(cy.order) = 0 THEN Infinity
    ELSE jsRem(toIndex - fromIndex + Len(cy.order), Len(cy.order))

----------------------------------------------------------------------------
(* Pathfinding *)

getNeighbors(pos) ==
    << Cell(pos.x, pos.z - 1), Cell(pos.x, pos.z + 1),
       Cell(pos.x - 1, pos.z), Cell(pos.x + 1, pos.z) >>

\* a heuristic that overestimates the distance along x and leaves out z
heuristicInflated(a, b) == 5 * Abs(a.x - b.x)

heuristic(a, b) == Abs(a.x - b.x) + Abs(a.z - b.z)

\* map.get(k) ?? Infinity
getOrInfinity(map, k) == IF k \in DOMAIN map THEN map[k] ELSE Infinity

RECURSIVE reconstructPathLoop(_, _, _)
reconstructPathLoop(cameFrom, path, currentKey) ==
    IF currentKey \in DOMAIN cameFrom
    THEN LET prev == cameFrom[currentKey]
         IN  reconstructPathLoop(cameFrom, << prev >> \o path, key(prev))
    ELSE path

reconstructPath(cameFrom, current) ==
    LET path == reconstructPathLoop(cameFrom, << current >>, key(current))
    IN  slice(path, 1, Len(path))

\* One pass of the inner loop of findPath over a neighbour of current
findPathNeighbor(g, st, current, neighbor, end, obstacleSet) ==
    LET neighborKey == key(neighbor)
        currentKey == key(current)
    IN
    IF neighborKey \in obstacleSet \/ ~inBounds(g, neighbor) \/ neighborKey \in st.closedSet
    THEN st
    ELSE
    LET tentativeG == getOrInfinity(st.gScore, currentKey) + 1
    IN
    IF tentativeG < getOrInfinity(st.gScore, neighborKey)
    THEN [st EXCEPT
            !.cameFrom = (neighborKey :> current) @@ @,
            !.gScore = (neighborKey :> tentativeG) @@ @,
            !.fScore = (neighborKey :> (tentativeG + heuristic(neighbor, end))) @@ @,
            !.openSet = IF neighborKey \in st.openSetKeys THEN @ ELSE Append(@, neighbor),
            !.openSetKeys = @ \cup {neighborKey}]
    ELSE st

RECURSIVE findPathLoop(_, _, _, _)
findPathLoop(g, st, end, obstacleSet) ==
    IF Len(st.openSet) = 0 THEN Null
    ELSE
    LET n == Len(st.openSet)
        score(i) == getOrInfinity(st.fScore, key(st.openSet[i]))
        \* the loop body from "const tail = openSet.pop()" on
        visit(bestIndex) ==
            LET current == st.openSet[bestIndex]
                currentKey == key(current)
                tail == st.openSet[n]
                popped == SubSeq(st.openSet, 1, n - 1)
                openSet == IF bestIndex <= Len(popped)
                           THEN [popped EXCEPT ![bestIndex] = tail]
                           ELSE popped
                st1 == [st EXCEPT !.openSet = openSet, !.openSetKeys = @ \ {currentKey}]
                st2 == [st1 EXCEPT !.closedSet = @ \cup {currentKey}]
                nb == getNeighbors(current)
                st3 == findPathNeighbor(g, st2, current, nb[1], end, obstacleSet)
                st4 == findPathNeighbor(g, st3, current, nb[2], end, obstacleSet)
                st5 == findPathNeighbor(g, st4, current, nb[3], end, obstacleSet)
                st6 == findPathNeighbor(g, st5, current, nb[4], end, obstacleSet)
            IN
            IF currentKey \in st.closedSet THEN findPathLoop(g, st1, end, obstacleSet)
            ELSE IF current = end THEN Some(reconstructPath(st.cameFrom, current))
            ELSE findPathLoop(g, st6, end, obstacleSet)
    IN  \* the first entry of the open list with the lowest f score
        visit(CHOOSE i \in 1..n :
                /\ \A j \in 1..n : score(i) <= score(j)
                /\ \A j \in 1..(i - 1) : score(j) > score(i))

\* findPath without its obstacle set
findPathThroughObstacles(g, start, end, obstacles) ==
    IF start = end THEN Some(<< >>)
    ELSE findPathLoop(g,
            [openSet |-> << start >>,
             openSetKeys |-> {key(start)},
             closedSet |-> {},
             cameFrom |-> EmptyMap,
             gScore |-> (key(start) :> 0),
             fScore |-> (key(start) :> heuristic(start, end))],
            end, {})

\* A*: Null when unreachable, otherwise Some(path), the path without start
findPath(g, start, end, obstacles) ==
    IF start = end THEN Some(<< >>)
    ELSE findPathLoop(g,
            [openSet |-> << start >>,
             openSetKeys |-> {key(start)},
             closedSet |-> {},
             cameFrom |-> EmptyMap,
             gScore |-> (key(start) :> 0),
             fScore |-> (key(start) :> heuristic(start, end))],
            end, { key(o) : o \in Range(obstacles) })

RECURSIVE floodFillLoop(_, _, _, _, _, _)
floodFillLoop(g, queue, queueIndex, visited, count, obstacleSet) ==
    IF ~(queueIndex < Len(queue) /\ count < cellCount(g)) THEN count
    ELSE
    LET pos == queue[queueIndex + 1]
        posKey == key(pos)
    IN
    IF posKey \in visited \/ posKey \in obstacleSet \/ ~inBounds(g, pos)
    THEN floodFillLoop(g, queue, queueIndex + 1, visited, count, obstacleSet)
    ELSE
    LET visited1 == visited \cup {posKey}
        nb == getNeighbors(pos)
        pushed == SelectSeq(nb, LAMBDA c : key(c) \notin visited1)
    IN  floodFillLoop(g, queue \o pushed, queueIndex + 1, visited1, count + 1, obstacleSet)

\* floodFill that stops one cell short of cellCount
floodFillCappedEarly(g, start, obstacles) ==
    LET count == floodFillLoop(g, << start >>, 0, {}, 0, { key(o) : o \in Range(obstacles) })
    IN  IF count >= cellCount(g) THEN cellCount(g) - 1 ELSE count

floodFill(g, start, obstacles) ==
    floodFillLoop(g, << start >>, 0, {}, 0, { key(o) : o \in Range(obstacles) })

----------------------------------------------------------------------------
(* AIController: helpers *)

\* the enumeration order of getValidMoves and getSafestMove: up, down, left, right
Dirs == << Cell(0, -1), Cell(0, 1), Cell(-1, 0), Cell(1, 0) >>

isOccupied(pos, obstacles) ==
    \E i \in 1..Len(obstacles) : obstacles[i].x = pos.x /\ obstacles[i].z = pos.z

normalizeFoodTargets(foodPos) ==
    SelectSeq(foodPos, LAMBDA item : item.x \in Int /\ item.z \in Int)

isFoodCell(pos, foods) ==
    LET normalized == normalizeFoodTargets(foods)
    IN  \E i \in 1..Len(normalized) : normalized[i].x = pos.x /\ normalized[i].z = pos.z

getClosestFoodDistance(pos, foods) ==
    LET normalized == normalizeFoodTargets(foods)
    IN  IF Len(normalized) = 0 THEN 0
        ELSE CHOOSE d \in { manhattan(pos, normalized[i]) : i \in 1..Len(normalized) } :
                \A i \in 1..Len(normalized) : d <= manhattan(pos, normalized[i])

getOpenNeighborCount(g, pos, obstacles) ==
    LET obstacleSet == { key(o) : o \in Range(obstacles) }
        nb == getNeighbors(pos)
    IN  Cardinality({ i \in 1..4 : inBounds(g, nb[i]) /\ key(nb[i]) \notin obstacleSet })

\* [...foods].sort(by manhattan distance to head): Array.prototype.sort is stable
RECURSIVE sortByDistance(_, _)
sortByDistance(head, foods) ==
    IF Len(foods) = 0 THEN << >>
    ELSE LET n == Len(foods)
             d(i) == manhattan(head, foods[i])
             first == CHOOSE i \in 1..n :
                         /\ \A j \in 1..n : d(i) <= d(j)
                         /\ \A j \in 1..(i - 1) : d(j) > d(i)
             rest == SubSeq(foods, 1, first - 1) \o SubSeq(foods, first + 1, n)
         IN  << foods[first] >> \o sortByDistance(head, rest)

\* moves.find(item => item.pos equals pos)
findMove(moves, pos) ==
    LET hits == SelectSeq(moves, LAMBDA m : m.pos.x = pos.x /\ m.pos.z = pos.z)
    IN  IF Len(hits) = 0 THEN Null ELSE Some(hits[1])

\* the loops "if (!best || score > best.score) best = ...": the first candidate
\* with the highest score among the candidates that were not skipped (Null)
keepBest(candidates) ==
    LET kept == SelectSeq(candidates, LAMBDA c : c # Null)
        n == Len(kept)
    IN  IF n = 0 THEN Null
        ELSE kept[CHOOSE i \in 1..n :
                    /\ \A j \in 1..n : kept[i][1].score >= kept[j][1].score
                    /\ \A j \in 1..(i - 1) : kept[j][1].score < kept[i][1].score]

\* getValidMoves without the loop over bombPositions
getValidMovesIgnoringBombs(g, bombs, head, currentDir, snake) ==
    LET blocked == { key(snake[i]) : i \in 2..(Len(snake) - 1) }
        allowed(dir) ==
            LET pos == Cell(head.x + dir.x, head.z + dir.z)
            IN  /\ ~(currentDir.x = -dir.x /\ currentDir.z = -dir.z
                        /\ (currentDir.x # 0 \/ currentDir.z # 0))
                /\ inBounds(g, pos)
                /\ key(pos) \notin blocked
        dirs == SelectSeq(Dirs, allowed)
    IN  [ i \in 1..Len(dirs) |->
            [dir |-> dirs[i], pos |-> Cell(head.x + dirs[i].x, head.z + dirs[i].z)] ]

\* getValidMoves without the test against the reverse of currentDir
getValidMovesWithReverse(g, bombs, head, currentDir, snake) ==
    LET blocked == { key(snake[i]) : i \in 2..(Len(snake) - 1) }
                     \cup { key(b) : b \in Range(bombs.cells) }
        allowed(dir) ==
            LET pos == Cell(head.x + dir.x, head.z + dir.z)
            IN  inBounds(g, pos) /\ key(pos) \notin blocked
        dirs == SelectSeq(Dirs, allowed)
    IN  [ i \in 1..Len(dirs) |->
            [dir |-> dirs[i], pos |-> Cell(head.x + dirs[i].x, head.z + dirs[i].z)] ]

\* getValidMoves with the tail blocked too (the loop running to snake.length)
getValidMovesBlockingTail(g, bombs, head, currentDir, snake) ==
    LET blocked == { key(snake[i]) : i \in 2..Len(snake) }
                     \cup { key(b) : b \in Range(bombs.cells) }
        allowed(dir) ==
            LET pos == Cell(head.x + dir.x, head.z + dir.z)
            IN  /\ ~(currentDir.x = -dir.x /\ currentDir.z = -dir.z
                        /\ (currentDir.x # 0 \/ currentDir.z # 0))
                /\ inBounds(g, pos)
                /\ key(pos) \notin blocked
        dirs == SelectSeq(Dirs, allowed)
    IN  [ i \in 1..Len(dirs) |->
            [dir |-> dirs[i], pos |-> Cell(head.x + dirs[i].x, head.z + dirs[i].z)] ]

getValidMoves(g, bombs, head, currentDir, snake) ==
    LET blocked == { key(snake[i]) : i \in 2..(Len(snake) - 1) }
                     \cup { key(b) : b \in Range(bombs.cells) }
        allowed(dir) ==
            LET pos == Cell(head.x + dir.x, head.z + dir.z)
            IN  /\ ~(currentDir.x = -dir.x /\ currentDir.z = -dir.z
                        /\ (currentDir.x # 0 \/ currentDir.z # 0))
                /\ inBounds(g, pos)
                /\ key(pos) \notin blocked
        dirs == SelectSeq(Dirs, allowed)
    IN  [ i \in 1..Len(dirs) |->
            [dir |-> dirs[i], pos |-> Cell(head.x + dirs[i].x, head.z + dirs[i].z)] ]

\* simulateMove that tests the tail even when the snake does not grow
simulateMoveBlockingTail(g, bombs, snake, nextPos, grows) ==
    IF ~inBounds(g, nextPos) THEN Null
    ELSE IF \E i \in 2..Len(snake) : snake[i].x = nextPos.x /\ snake[i].z = nextPos.z
    THEN Null
    ELSE IF isOccupied(nextPos, bombs.cells) THEN Null
    ELSE LET nextSnake == << Cell(nextPos.x, nextPos.z) >> \o snake
         IN  Some([snake |-> IF grows THEN nextSnake
                               ELSE SubSeq(nextSnake, 1, Len(nextSnake) - 1),
                   grows |-> grows])

simulateMove(g, bombs, snake, nextPos, grows) ==
    IF ~inBounds(g, nextPos) THEN Null
    ELSE IF \E i \in 2..Len(snake) :
                /\ ~(i = Len(snake) /\ ~grows)
                /\ snake[i].x = nextPos.x /\ snake[i].z = nextPos.z
    THEN Null
    ELSE IF isOccupied(nextPos, bombs.cells) THEN Null
    ELSE LET nextSnake == << Cell(nextPos.x, nextPos.z) >> \o snake
         IN  Some([snake |-> IF grows THEN nextSnake
                               ELSE SubSeq(nextSnake, 1, Len(nextSnake) - 1),
                   grows |-> grows])

getCycleTailBuffer(cy, snakeState) ==
    IF ~isValid(cy) \/ Len(snakeState) < 2 THEN 0
    ELSE LET headIndex == indexOf(cy, snakeState[1])
             tailIndex == indexOf(cy, Last(snakeState))
         IN  IF headIndex < 0 \/ tailIndex < 0 THEN 0
             ELSE distanceForward(cy, headIndex, tailIndex)

\* validateCycleOrder without its test of the gap
validateCycleOrderUnchecked(cy, snakeState, growsThisStep) == TRUE

validateCycleOrder(cy, snakeState, growsThisStep) ==
    IF ~isValid(cy) THEN TRUE
    ELSE LET headIndex == indexOf(cy, snakeState[1])
             tailIndex == indexOf(cy, Last(snakeState))
         IN  IF headIndex < 0 \/ tailIndex < 0 THEN FALSE
             ELSE LET forwardGap == distanceForward(cy, headIndex, tailIndex)
                      baseGap == IF growsThisStep THEN 2 ELSE 1
                      \* Math.floor(length * 0.08)
                      dynamicGap == Max(baseGap, (Len(snakeState) * 8) \div 100)
                  IN  forwardGap > dynamicGap

scoreSurvivalState(g, cy, bombs, snakeState, foods) ==
    LET head == snakeState[1]
        obstacles == slice(snakeState, 1, Len(snakeState) - 1) \o bombs.cells
        openSpace == floodFill(g, head, obstacles)
        openNeighbors == getOpenNeighborCount(g, head, obstacles)
        cycleBuffer == getCycleTailBuffer(cy, snakeState)
        nearestFood == getClosestFoodDistance(head, foods)
    IN  openSpace * 6 + openNeighbors * 55 + cycleBuffer * 4 - nearestFood * 3

hasEscapeRoute(g, bombs, snakeState) ==
    IF Len(snakeState) < 2 THEN TRUE
    ELSE LET obstacles == slice(snakeState, 1, Len(snakeState) - 1) \o bombs.cells
         IN  findPath(g, snakeState[1], Last(snakeState), obstacles) # Null

----------------------------------------------------------------------------
(* AIController: the policies *)

\* policy C never offering a move
getCycleBaselineMoveSkipped(g, cy, bombs, head, moves, snake, foods) == Null

\* Policy C.  score is kept in fifths: 5 * (380 + buffer * 1.2)
getCycleBaselineMove(g, cy, bombs, head, moves, snake, foods) ==
    LET nextCycleCell == getNextCell(cy, head)
    IN
    IF nextCycleCell = Null THEN Null
    ELSE
    LET candidate == findMove(moves, nextCycleCell[1])
    IN
    IF candidate = Null THEN Null
    ELSE
    LET result == simulateMove(g, bombs, snake, candidate[1].pos,
                               isFoodCell(candidate[1].pos, foods))
    IN
    IF result = Null THEN Null
    ELSE Some([dir |-> candidate[1].dir, pos |-> candidate[1].pos,
               score |-> 5 * 380 + getCycleTailBuffer(cy, result[1].snake) * 6,
               kind |-> "cycle", reason |-> Null,
               survivalBuffer |-> getCycleTailBuffer(cy, result[1].snake)])

\* policy A never offering a move
getDirectSafeFoodMoveSkipped(g, cy, bombs, moves, snake, foods) == Null

\* Policy A
getDirectSafeFoodMove(g, cy, bombs, moves, snake, foods) ==
    IF Len(foods) = 0 THEN Null
    ELSE
    LET try(move) ==
            IF ~isFoodCell(move.pos, foods) THEN Null
            ELSE
            LET result == simulateMove(g, bombs, snake, move.pos, TRUE)
            IN
            IF result = Null THEN Null
            ELSE IF ~validateCycleOrder(cy, result[1].snake, TRUE) THEN Null
            ELSE IF ~hasEscapeRoute(g, bombs, result[1].snake) THEN Null
            ELSE Some([dir |-> move.dir, pos |-> move.pos,
                       score |-> scoreSurvivalState(g, cy, bombs, result[1].snake, foods) + 420,
                       kind |-> "direct-food", reason |-> Some(move.pos),
                       survivalBuffer |-> getCycleTailBuffer(cy, result[1].snake),
                       foodGain |-> 99])
    IN  keepBest([ i \in 1..Len(moves) |-> try(moves[i]) ])

\* Policy B
\* getEarlyGameFoodChaseMove over the 5 nearest fruits
getEarlyGameFoodChaseMoveFiveTargets(g, cy, bombs, head, moves, snake, foods) ==
    IF Len(foods) = 0 THEN Null
    ELSE IF Len(snake) > 18 THEN Null
    ELSE
    LET staticObstacles == slice(snake, 0, Len(snake) - 1) \o bombs.cells
        candidates == slice(sortByDistance(head, foods), 0, 5)
        \* the loop body from "const grows" on
        chase(target, path, move) ==
            LET scored(result) ==
                    IF result = Null THEN Null
                    ELSE IF ~hasEscapeRoute(g, bombs, result[1].snake) THEN Null
                    ELSE Some([dir |-> move.dir, pos |-> move.pos,
                               score |-> scoreSurvivalState(g, cy, bombs, result[1].snake, foods)
                                           + 300 + Max(0, 14 - Len(path)) * 22,
                               kind |-> "early-chase", reason |-> Some(target),
                               survivalBuffer |-> getCycleTailBuffer(cy, result[1].snake),
                               foodGain |-> Max(1, 18 - Len(path)),
                               pathLength |-> Len(path)])
            IN  scored(simulateMove(g, bombs, snake, move.pos, isFoodCell(move.pos, foods)))
        firstStep(target, path) ==
            LET found(move) == IF move = Null THEN Null ELSE chase(target, path, move[1])
            IN  found(findMove(moves, path[1]))
        try(target) ==
            LET routed(path) ==
                    IF path = Null THEN Null
                    ELSE IF Len(path[1]) = 0 THEN Null
                    ELSE firstStep(target, path[1])
            IN  routed(findPath(g, head, target, staticObstacles))
    IN  keepBest([ i \in 1..Len(candidates) |-> try(candidates[i]) ])

getEarlyGameFoodChaseMove(g, cy, bombs, head, moves, snake, foods) ==
    IF Len(foods) = 0 THEN Null
    ELSE IF Len(snake) > 18 THEN Null
    ELSE
    LET staticObstacles == slice(snake, 0, Len(snake) - 1) \o bombs.cells
        candidates == slice(sortByDistance(head, foods), 0, 4)
        \* the loop body from "const grows" on
        chase(target, path, move) ==
            LET scored(result) ==
                    IF result = Null THEN Null
                    ELSE IF ~hasEscapeRoute(g, bombs, result[1].snake) THEN Null
                    ELSE Some([dir |-> move.dir, pos |-> move.pos,
                               score |-> scoreSurvivalState(g, cy, bombs, result[1].snake, foods)
                                           + 300 + Max(0, 14 - Len(path)) * 22,
                               kind |-> "early-chase", reason |-> Some(target),
                               survivalBuffer |-> getCycleTailBuffer(cy, result[1].snake),
                               foodGain |-> Max(1, 18 - Len(path)),
                               pathLength |-> Len(path)])
            IN  scored(simulateMove(g, bombs, snake, move.pos, isFoodCell(move.pos, foods)))
        firstStep(target, path) ==
            LET found(move) == IF move = Null THEN Null ELSE chase(target, path, move[1])
            IN  found(findMove(moves, path[1]))
        try(target) ==
            LET routed(path) ==
                    IF path = Null THEN Null
                    ELSE IF Len(path[1]) = 0 THEN Null
                    ELSE firstStep(target, path[1])
            IN  routed(findPath(g, head, target, staticObstacles))
    IN  keepBest([ i \in 1..Len(candidates) |-> try(candidates[i]) ])

Unsafe(buffer) == [safe |-> FALSE, score |-> -Infinity, survivalBuffer |-> buffer]

RECURSIVE validateShortcutPathLoop(_, _, _, _, _, _, _, _, _)
validateShortcutPathLoop(g, cy, bombs, path, i, simulatedSnake, latestBuffer, target, foods) ==
    IF ~(i < Len(path))
    THEN IF ~hasEscapeRoute(g, bombs, simulatedSnake) THEN Unsafe(latestBuffer)
         ELSE [safe |-> TRUE,
               score |-> scoreSurvivalState(g, cy, bombs, simulatedSnake, foods),
               survivalBuffer |-> latestBuffer]
    ELSE
    LET step == path[i + 1]
        isLastStep == i = Len(path) - 1
        grows == isLastStep /\ step.x = target.x /\ step.z = target.z
        \* the checks of "if (this.cycle.isValid())"
        cycleChecks(headIndex, tailIndex, nextIndex) ==
            IF headIndex < 0 \/ tailIndex < 0 \/ nextIndex < 0 THEN FALSE
            ELSE LET tailWindow == distanceForward(cy, headIndex, tailIndex)
                     forwardAdvance == distanceForward(cy, headIndex, nextIndex)
                     allowance == Max(1, tailWindow - (IF grows THEN 3 ELSE 2))
                 IN  ~(forwardAdvance <= 0 \/ forwardAdvance > allowance)
        \* from "simulatedSnake = result.snake" on
        advance(nextSnake, buffer) ==
            \* Math.floor(length * 0.035)
            IF buffer <= Max(1, (Len(nextSnake) * 35) \div 1000) THEN Unsafe(buffer)
            ELSE validateShortcutPathLoop(g, cy, bombs, path, i + 1, nextSnake, buffer,
                                          target, foods)
        simulated(result) ==
            IF result = Null THEN Unsafe(0)
            ELSE IF ~validateCycleOrder(cy, result[1].snake, result[1].grows) THEN Unsafe(0)
            ELSE advance(result[1].snake, getCycleTailBuffer(cy, result[1].snake))
    IN
    IF isValid(cy) /\ ~cycleChecks(indexOf(cy, simulatedSnake[1]),
                                   indexOf(cy, Last(simulatedSnake)), indexOf(cy, step))
    THEN Unsafe(0)
    ELSE simulated(simulateMove(g, bombs, simulatedSnake, step, grows))

validateShortcutPath(g, cy, bombs, path, snake, target, foods) ==
    validateShortcutPathLoop(g, cy, bombs, path, 0, snake, 0, target, foods)

\* Policy D: [best |-> Null or Some(move), rejected |-> shortcutsRejected increments]
getBestShortcutMove(g, cy, bombs, step, head, moves, snake, foods) ==
    LET interval == IF Len(snake) < 90 THEN 1 ELSE IF Len(snake) < 180 THEN 2 ELSE 3
    IN
    IF Len(foods) = 0 THEN [best |-> Null, rejected |-> 0]
    ELSE IF jsRem(step, interval) # 0 THEN [best |-> Null, rejected |-> 0]
    ELSE
    LET staticObstacles == slice(snake, 0, Len(snake) - 1) \o bombs.cells
        maxTargets == IF Len(foods) > 8 THEN 4 ELSE 3
        candidates == slice(sortByDistance(head, foods), 0, maxTargets)
        headIndex == indexOf(cy, head)
        dynamicPathLimit == IF Len(snake) < 80 THEN 34
                            ELSE IF Len(snake) < 180 THEN 28 ELSE 22
        \* one pass of the loop body: skipped (before validation), rejected (by
        \* validateShortcutPath) or the candidate move
        Skipped == [skipped |-> TRUE, move |-> Null]
        scored(target, path, move, validation) ==
            IF ~validation.safe THEN [skipped |-> FALSE, move |-> Null]
            ELSE
            LET gain(foodGain) ==
                    [skipped |-> FALSE,
                     move |-> Some([dir |-> move.dir, pos |-> move.pos,
                          score |-> validation.score + foodGain * 34
                                      + Max(0, 220 - Len(path) * 7),
                          kind |-> "shortcut", reason |-> Some(target),
                          survivalBuffer |-> validation.survivalBuffer,
                          foodGain |-> foodGain,
                          pathLength |-> Len(path)])]
                distance(targetIndex) ==
                    IF headIndex >= 0 /\ targetIndex >= 0
                    THEN distanceForward(cy, headIndex, targetIndex)
                    ELSE Len(path)
            IN  gain(Max(0, distance(indexOf(cy, target)) - Len(path)))
        firstStep(target, path) ==
            LET found(move) ==
                    IF move = Null THEN Skipped
                    ELSE scored(target, path, move[1],
                                validateShortcutPath(g, cy, bombs, path, snake, target, foods))
            IN  found(findMove(moves, path[1]))
        try(target) ==
            LET routed(path) ==
                    IF path = Null THEN Skipped
                    ELSE IF Len(path[1]) = 0 THEN Skipped
                    ELSE IF Len(path[1]) > dynamicPathLimit THEN Skipped
                    ELSE firstStep(target, path[1])
            IN  routed(findPath(g, head, target, staticObstacles))
        tried == [ i \in 1..Len(candidates) |-> try(candidates[i]) ]
    IN  [best |-> keepBest([ i \in 1..Len(tried) |-> tried[i].move ]),
         rejected |-> Cardinality({ i \in 1..Len(tried) :
                                      ~tried[i].skipped /\ tried[i].move = Null })]

\* shouldPrioritizeShortcut with proactiveInterval 1 at every length
shouldPrioritizeShortcutEveryStep(step, shortcutMove, cycleMove, snakeLength) ==
    IF shortcutMove = Null THEN FALSE
    ELSE shortcutMove[1].survivalBuffer > Max(3, (snakeLength * 5) \div 100)

shouldPrioritizeShortcut(step, shortcutMove, cycleMove, snakeLength) ==
    IF shortcutMove = Null THEN FALSE
    ELSE
    LET \* Math.floor(snakeLength * 0.05)
        minimumBuffer == Max(3, (snakeLength * 5) \div 100)
        shortPath == shortcutMove[1].pathLength <= (IF snakeLength < 70 THEN 8 ELSE 6)
        cycleStall == shortcutMove[1].foodGain >= 1
        proactiveInterval == IF snakeLength < 60 THEN 1
                             ELSE IF snakeLength < 140 THEN 2 ELSE 3
    IN
    IF shortcutMove[1].survivalBuffer <= minimumBuffer THEN FALSE
    ELSE IF cycleMove = Null THEN TRUE
    ELSE IF shortPath \/ cycleStall THEN TRUE
    ELSE jsRem(step, proactiveInterval) = 0

getShortcutTolerance(snakeLength) ==
    IF snakeLength < 60 THEN 18 ELSE IF snakeLength < 140 THEN 12 ELSE 8

\* Policy E
\* getBestFallbackMove with "score >= best.score": the last of equal moves wins
getBestFallbackMoveLastWins(g, cy, bombs, moves, snake, foods) ==
    LET try(move) ==
            LET result == simulateMove(g, bombs, snake, move.pos, isFoodCell(move.pos, foods))
            IN
            IF result = Null THEN Null
            ELSE Some([dir |-> move.dir, pos |-> move.pos,
                       score |-> scoreSurvivalState(g, cy, bombs, result[1].snake, foods),
                       kind |-> "fallback", reason |-> Null,
                       survivalBuffer |-> getCycleTailBuffer(cy, result[1].snake)])
        kept == SelectSeq([ i \in 1..Len(moves) |-> try(moves[i]) ], LAMBDA c : c # Null)
        n == Len(kept)
    IN  IF n = 0 THEN Null
        ELSE kept[CHOOSE i \in 1..n :
                    /\ \A j \in 1..n : kept[i][1].score >= kept[j][1].score
                    /\ \A j \in (i + 1)..n : kept[j][1].score < kept[i][1].score]

getBestFallbackMove(g, cy, bombs, moves, snake, foods) ==
    LET try(move) ==
            LET result == simulateMove(g, bombs, snake, move.pos, isFoodCell(move.pos, foods))
            IN
            IF result = Null THEN Null
            ELSE Some([dir |-> move.dir, pos |-> move.pos,
                       score |-> scoreSurvivalState(g, cy, bombs, result[1].snake, foods),
                       kind |-> "fallback", reason |-> Null,
                       survivalBuffer |-> getCycleTailBuffer(cy, result[1].snake)])
    IN  keepBest([ i \in 1..Len(moves) |-> try(moves[i]) ])

\* the catch block's computation
getSafestMove(g, head, currentDir, obstacles) ==
    LET open(move) ==
            LET nextPos == Cell(head.x + move.x, head.z + move.z)
            IN  /\ ~(move.x = -currentDir.x /\ move.z = -currentDir.z)
                /\ inBounds(g, nextPos)
                /\ ~isOccupied(nextPos, obstacles)
        space(move) == floodFill(g, Cell(head.x + move.x, head.z + move.z), obstacles)
        cands == SelectSeq(Dirs, open)
        n == Len(cands)
    IN  \* maxSpace starts at -1, so the first open move with the largest space wins
        IF n = 0 THEN currentDir
        ELSE cands[CHOOSE i \in 1..n :
                     /\ \A j \in 1..n : space(cands[i]) >= space(cands[j])
                     /\ \A j \in 1..(i - 1) : space(cands[j]) < space(cands[i])]

----------------------------------------------------------------------------
(* AIController: the entry point *)

Decision(kind, reason) == [kind |-> kind, reason |-> reason]

\* debugStats as the constructor sets it
initialDebugStats(cy) ==
    [mode |-> "cycle", cycleAvailable |-> isValid(cy),
     shortcutsAccepted |-> 0, shortcutsRejected |-> 0,
     emergencyCount |-> 0, fallbackCount |-> 0,
     lastDecision |-> Decision("init", Null), lastSurvivalBuffer |-> 0, step |-> 0]

resetState(stats) ==
    [stats EXCEPT !.shortcutsAccepted = 0, !.shortcutsRejected = 0,
                  !.emergencyCount = 0, !.fallbackCount = 0,
                  !.lastDecision = Decision("reset", Null),
                  !.lastSurvivalBuffer = 0, !.step = 0]

\* What a call leaves: the direction returned (Null: null/undefined or nothing,
\* because the call threw), whether it threw, and the fields it wrote
Outcome(dir, threw, step, stats) ==
    [dir |-> dir, raised |-> threw, stepCounter |-> step, debugStats |-> stats]

\* return selected.dir (and the returns of policies A and B)
accept(step, stats, move) ==
    Outcome(Some(move.dir), FALSE, step,
            [stats EXCEPT !.lastDecision = Decision(move.kind, move.reason),
                          !.lastSurvivalBuffer = move.survivalBuffer])

\* a selection that reads debugStats.mode: once in fallback mode it stays there
selectMoveStickyMode(g, cy, bombs, step, stats, moves, snake, foods, cycleMove, shortcut) ==
    LET fallbackMove == getBestFallbackMove(g, cy, bombs, moves, snake, foods)
    IN  IF stats.mode = "fallback" /\ fallbackMove # Null
        THEN accept(step, [stats EXCEPT !.fallbackCount = @ + 1], fallbackMove[1])
        ELSE IF cycleMove # Null
        THEN accept(step, [stats EXCEPT !.mode = "cycle"], cycleMove[1])
        ELSE IF fallbackMove # Null
        THEN accept(step, [stats EXCEPT !.mode = "fallback", !.fallbackCount = @ + 1],
                    fallbackMove[1])
        ELSE Outcome(Some(moves[1].dir), FALSE, step,
                     [stats EXCEPT !.lastDecision = Decision("default-first-move", Null)])

\* getNextDirection from "let selected = null" on: the arbitration between the
\* cycle move and the shortcut, then the fallback
selectMove(g, cy, bombs, step, stats, moves, snake, foods, cycleMove, shortcut) ==
    IF /\ shortcut.best # Null
       /\ shouldPrioritizeShortcut(step, shortcut.best, cycleMove, Len(snake))
       /\ (cycleMove = Null
             \/ 5 * shortcut.best[1].score
                  >= cycleMove[1].score - 5 * getShortcutTolerance(Len(snake)))
    THEN accept(step, [stats EXCEPT !.shortcutsRejected = @ + shortcut.rejected,
                                    !.mode = "shortcut", !.shortcutsAccepted = @ + 1],
                shortcut.best[1])
    ELSE IF cycleMove # Null
    THEN accept(step, [stats EXCEPT !.shortcutsRejected = @ + shortcut.rejected,
                                    !.mode = "cycle"],
                cycleMove[1])
    ELSE
    LET fallbackMove == getBestFallbackMove(g, cy, bombs, moves, snake, foods)
    IN
    IF fallbackMove # Null
    THEN accept(step, [stats EXCEPT !.shortcutsRejected = @ + shortcut.rejected,
                                    !.mode = "fallback", !.fallbackCount = @ + 1],
                fallbackMove[1])
    ELSE Outcome(Some(moves[1].dir), FALSE, step,
                 [stats EXCEPT !.shortcutsRejected = @ + shortcut.rejected,
                               !.lastDecision = Decision("default-first-move", Null)])

\* getNextDirection after policy A: policy B, then the cycle and shortcut moves
afterDirectFood(g, cy, bombs, step, stats, head, moves, snake, foods, earlyGameMove) ==
    IF earlyGameMove # Null
    THEN accept(step, [stats EXCEPT !.mode = "shortcut", !.shortcutsAccepted = @ + 1],
                earlyGameMove[1])
    ELSE selectMove(g, cy, bombs, step, stats, moves, snake, foods,
            IF isValid(cy)
            THEN getCycleBaselineMove(g, cy, bombs, head, moves, snake, foods)
            ELSE Null,
            IF isValid(cy)
            THEN getBestShortcutMove(g, cy, bombs, step, head, moves, snake, foods)
            ELSE [best |-> Null, rejected |-> 0])

\* getNextDirection after getValidMoves: policy A first
afterValidMoves(g, cy, bombs, step, stats, head, currentDir, moves, snake, foods, directFoodMove) ==
    IF Len(moves) = 0
    THEN Outcome(Some(currentDir), FALSE, step,
                 [stats EXCEPT !.lastDecision = Decision("no-legal-move", Null)])
    ELSE IF directFoodMove # Null
    THEN accept(step, [stats EXCEPT !.mode = "shortcut", !.shortcutsAccepted = @ + 1],
                directFoodMove[1])
    ELSE afterDirectFood(g, cy, bombs, step, stats, head, moves, snake, foods,
            getEarlyGameFoodChaseMove(g, cy, bombs, head, moves, snake, foods))

\* the try block once head, snake and foods are read and the body is not empty
decide(g, cy, bombs, step, stats, head, currentDir, moves, snake, foods) ==
    afterValidMoves(g, cy, bombs, step, stats, head, currentDir, moves, snake, foods,
        getDirectSafeFoodMove(g, cy, bombs, moves, snake, foods))

\* the catch block: it reads headPos, occupiedCells and currentDir again
catch(g, step, stats, hp, currentDir, occupiedCells, miss) ==
    IF miss \in {"headPos", "occupiedCells", "currentDir"}
    THEN Outcome(Null, TRUE, step, stats)
    ELSE Outcome(Some(getSafestMove(g, Cell(hp.x, hp.z), currentDir,
                                    slice(occupiedCells, 0, Len(occupiedCells) - 1))),
                 FALSE, step, stats)

\* getNextDirection with "this.stepCounter++" moved below the return for an
\* empty body
getNextDirectionCountingLate(g, cy, bombs, step0, stats0, hp, currentDir, occupiedCells, foodPos, miss) ==
    IF \/ miss = "headPos" \/ miss = "occupiedCells"
       \/ (Len(occupiedCells) # 0 /\ (bombs.nullEntry \/ miss = "currentDir"))
    THEN catch(g, step0 + 1, [stats0 EXCEPT !.step = step0 + 1], hp, currentDir,
               occupiedCells, miss)
    ELSE IF Len(occupiedCells) = 0
    THEN Outcome(IF miss = "currentDir" THEN Null ELSE Some(currentDir), FALSE, step0, stats0)
    ELSE decide(g, cy, bombs, step0 + 1, [stats0 EXCEPT !.step = step0 + 1],
                Cell(hp.x, hp.z), currentDir,
                getValidMoves(g, bombs, Cell(hp.x, hp.z), currentDir, occupiedCells),
                occupiedCells, normalizeFoodTargets(foodPos))

\* miss names the argument that is null/undefined: "none", "headPos",
\* "currentDir" or "occupiedCells"; bombs.nullEntry says that bombPositions
\* holds a null element
getNextDirection(g, cy, bombs, step0, stats0, hp, currentDir, occupiedCells, foodPos, miss) ==
    IF \/ miss = "headPos" \/ miss = "occupiedCells"
       \/ (Len(occupiedCells) # 0 /\ (bombs.nullEntry \/ miss = "currentDir"))
    THEN catch(g, step0 + 1, [stats0 EXCEPT !.step = step0 + 1], hp, currentDir,
               occupiedCells, miss)
    ELSE IF Len(occupiedCells) = 0
    THEN Outcome(IF miss = "currentDir" THEN Null ELSE Some(currentDir), FALSE,
                 step0 + 1, [stats0 EXCEPT !.step = step0 + 1])
    ELSE decide(g, cy, bombs, step0 + 1, [stats0 EXCEPT !.step = step0 + 1],
                Cell(hp.x, hp.z), currentDir,
                getValidMoves(g, bombs, Cell(hp.x, hp.z), currentDir, occupiedCells),
                occupiedCells, normalizeFoodTargets(foodPos))

\* const maxTargets = 6 of hasReachableFood
maxTargets == 6

\* hasReachableFood without ".slice(0, maxTargets)"
hasReachableFoodAnyTarget(g, bombs, hp, occupiedCells, foodPos) ==
    LET foods == normalizeFoodTargets(foodPos)
        head == Cell(hp.x, hp.z)
        staticObstacles == slice(occupiedCells, 0, Len(occupiedCells) - 1) \o bombs.cells
    IN  \E i \in 1..Len(foods) :
            LET path == findPath(g, head, foods[i], staticObstacles)
            IN  path # Null /\ Len(path[1]) > 0

\* hasReachableFood: it reads the grid and bombPositions and writes nothing
hasReachableFood(g, bombs, hp, occupiedCells, foodPos) ==
    LET foods == normalizeFoodTargets(foodPos)
        head == Cell(hp.x, hp.z)
        staticObstacles == slice(occupiedCells, 0, Len(occupiedCells) - 1) \o bombs.cells
        candidates == slice(sortByDistance(head, foods), 0, maxTargets)
    IN  IF Len(foods) = 0 THEN FALSE
        ELSE \E i \in 1..Len(candidates) :
                LET path == findPath(g, head, candidates[i], staticObstacles)
                IN  path # Null /\ Len(path[1]) > 0

\* getEmergencyDirection: policy E alone; stepCounter is not written
getEmergencyDirection(g, cy, bombs, step, stats, hp, currentDir, occupiedCells, foodPos) ==
    LET head == Cell(hp.x, hp.z)
        snake == occupiedCells
        foods == normalizeFoodTargets(foodPos)
        moves == getValidMoves(g, bombs, head, currentDir, snake)
        fallback == getBestFallbackMove(g, cy, bombs, moves, snake, foods)
    IN  IF Len(snake) = 0 THEN Outcome(Null, FALSE, step, stats)
        ELSE IF Len(moves) = 0 THEN Outcome(Null, FALSE, step, stats)
        ELSE IF fallback # Null
        THEN Outcome(Some(fallback[1].dir), FALSE, step,
                     [stats EXCEPT !.emergencyCount = @ + 1,
                                   !.lastDecision = Decision("emergency:max-space", Null)])
        ELSE Outcome(Some(moves[1].dir), FALSE, step, stats)

----------------------------------------------------------------------------
(* Inputs *)

Grids(maxDim) == { GridBounds(w, h) : w \in 2..maxDim, h \in 2..maxDim }

SeqsUpTo(S, n) == UNION { [1..k -> S] : k \in 0..n }

RECURSIVE LegalBodies(_, _)
\* the bodies of exactly n pairwise distinct in-bounds cells, each next to the one before
LegalBodies(g, n) ==
    IF n = 1 THEN { << c >> : c \in Cells(g) }
    ELSE UNION { { Append(b, c) :
                     c \in { d \in Range(getNeighbors(Last(b))) :
                               inBounds(g, d) /\ d \notin Range(b) } } :
                 b \in LegalBodies(g, n - 1) }

LegalBodiesUpTo(g, n) == UNION { LegalBodies(g, k) : k \in 1..n }

\* a body whose head has left the grid: what the host holds after a wall crash
OutOfBoundsBodies(g, n) ==
    UNION { { << c >> \o SubSeq(b, 2, Len(b)) :
                c \in { d \in Range(getNeighbors(b[1])) : ~inBounds(g, d) } } :
            b \in LegalBodiesUpTo(g, n) }

NoBombs == [cells |-> << >>, nullEntry |-> FALSE]
NoQuery == [kind |-> "none", a |-> 0, b |-> 0, cell |-> Null, result |-> 0]

\* new AIController(grid)
Constructed(g) ==
    /\ grid = g
    /\ cycle = buildCycle(g)
    /\ stepCounter = 0
    /\ debugStats = initialDebugStats(buildCycle(g))
    /\ nextDir = Null
    /\ raised = FALSE
    /\ query = NoQuery

----------------------------------------------------------------------------
(* Specification Spec: one getNextDirection call on drawn arguments *)

WellFormedCall(g) ==
    /\ missing = "none"
    /\ segments \in LegalBodiesUpTo(g, MaxLen)
    /\ headPos = segments[1]
    /\ direction \in Range(Dirs) \cup {Cell(0, 0)}
    /\ fruits \in SeqsUpTo(Cells(g), MaxFruits)
    /\ bombPositions \in { [cells |-> c, nullEntry |-> FALSE] :
                               c \in SeqsUpTo(Cells(g) \ {headPos}, MaxBombs) }

MalformedCall(g) ==
    /\ direction \in Range(Dirs) \cup {Cell(0, 0)}
    /\ \/ /\ missing = "none"
          /\ bombPositions = NoBombs
          /\ fruits \in SeqsUpTo(Cells(g), MaxFruits)
          /\ \/ segments = << >> /\ headPos \in Cells(g)
             \/ segments \in OutOfBoundsBodies(g, 2) /\ headPos = segments[1]
       \/ /\ missing = "none"
          /\ bombPositions = [cells |-> << >>, nullEntry |-> TRUE]
          /\ fruits = << >>
          /\ segments \in {<< >>} \cup LegalBodiesUpTo(g, MaxLen)
          /\ headPos = IF segments = << >> THEN Cell(0, 0) ELSE segments[1]
       \/ /\ missing \in {"headPos", "currentDir", "occupiedCells"}
          /\ bombPositions = NoBombs
          /\ fruits = << >>
          /\ segments \in {<< >>} \cup LegalBodiesUpTo(g, 2)
          /\ headPos = IF segments = << >> THEN Cell(0, 0) ELSE segments[1]

Init ==
    \E g \in Grids(MaxDim) :
        /\ Constructed(g)
        /\ pc = "ready"
        /\ WellFormedCall(g) \/ MalformedCall(g)

GetNextDirectionCall ==
    /\ pc = "ready"
    /\ \E out \in { getNextDirection(grid, cycle, bombPositions, stepCounter, debugStats,
                                      headPos, direction, segments, fruits, missing) } :
           /\ nextDir' = out.dir
           /\ raised' = out.raised
           /\ stepCounter' = out.stepCounter
           /\ debugStats' = out.debugStats
    /\ pc' = "done"
    /\ UNCHANGED << grid, cycle, bombPositions, headPos, direction, segments, fruits,
                    missing, query >>

Next == GetNextDirectionCall

Spec == Init /\ [][Next]_vars

----------------------------------------------------------------------------
(* Specification SpecHarness: the loop of simulateRun, from any legal body  *)
(* of length 3 heading the way it points, the fruit on any free cell        *)

FreeCells(g, segs) == Cells(g) \ Range(segs)

InitHarness ==
    \E g \in Grids(MaxDim) :
        /\ grid = g
        /\ cycle = buildCycle(g)
        /\ bombPositions = NoBombs
        /\ stepCounter = 0
        /\ debugStats = resetState(initialDebugStats(buildCycle(g)))
        /\ segments \in LegalBodies(g, 3)
        /\ headPos = segments[1]
        /\ direction = Cell(segments[1].x - segments[2].x, segments[1].z - segments[2].z)
        /\ \E fruit \in FreeCells(g, segments) : fruits = << fruit >>
        /\ missing = "none"
        /\ nextDir = Null
        /\ raised = FALSE
        /\ query = NoQuery
        /\ pc = "running"

\* one iteration of the for loop of simulateRun
HarnessStep ==
    /\ pc = "running"
    /\ stepCounter < MaxSteps
    /\ \E out \in { getNextDirection(grid, cycle, bombPositions, stepCounter, debugStats,
                                      segments[1], direction, segments, fruits, "none") } :
        LET head == segments[1]
            fruit == fruits[1]
            dir == IF out.dir # Null
                      /\ ~(out.dir[1].x = -direction.x /\ out.dir[1].z = -direction.z)
                   THEN Cell(out.dir[1].x, out.dir[1].z)
                   ELSE direction
            newHead == Cell(head.x + dir.x, head.z + dir.z)
            growPending == 0
            willGrow == growPending > 0
            hitsSelf == \E i \in 2..Len(segments) :
                            /\ ~(i = Len(segments) /\ ~willGrow)
                            /\ segments[i].x = newHead.x /\ segments[i].z = newHead.z
            ateFruit == newHead.x = fruit.x /\ newHead.z = fruit.z
            unshifted == << newHead >> \o segments
            moved == IF growPending + (IF ateFruit THEN 1 ELSE 0) > 0
                     THEN unshifted
                     ELSE SubSeq(unshifted, 1, Len(unshifted) - 1)
        IN  /\ headPos' = head
            /\ nextDir' = out.dir
            /\ raised' = out.raised
            /\ stepCounter' = out.stepCounter
            /\ debugStats' = out.debugStats
            /\ direction' = dir
            /\ IF ~inBounds(grid, newHead)
               THEN pc' = "wall" /\ UNCHANGED << segments, fruits >>
               ELSE IF hitsSelf
               THEN pc' = "self" /\ UNCHANGED << segments, fruits >>
               ELSE /\ segments' = moved
                    /\ IF Len(moved) >= cellCount(grid)
                       THEN pc' = "filled" /\ UNCHANGED fruits
                       ELSE IF ~ateFruit
                       THEN pc' = "running" /\ UNCHANGED fruits
                       ELSE IF FreeCells(grid, moved) = {}
                       THEN pc' = "filled" /\ UNCHANGED fruits
                       ELSE /\ pc' = "running"
                            /\ \E spawned \in FreeCells(grid, moved) :
                                   fruits' = << spawned >>
    /\ UNCHANGED << grid, cycle, bombPositions, missing, query >>

\* the loop ends at options.steps
HarnessLimit ==
    /\ pc = "running"
    /\ stepCounter >= MaxSteps
    /\ pc' = "survived-limit"
    /\ UNCHANGED << grid, cycle, bombPositions, stepCounter, debugStats, headPos,
                    direction, segments, fruits, missing, nextDir, raised, query >>

NextHarness == HarnessStep \/ HarnessLimit

SpecHarness == InitHarness /\ [][NextHarness]_vars

----------------------------------------------------------------------------
(* Specification SpecCycle: a HamiltonianCycle is built for a grid, then    *)
(* one query is put to it                                                   *)

InitCycle ==
    \E g \in Grids(MaxCycleDim) :
        /\ Constructed(g)
        /\ bombPositions = NoBombs
        /\ headPos = Cell(0, 0)
        /\ direction = Cell(0, 0)
        /\ segments = << >>
        /\ fruits = << >>
        /\ missing = "none"
        /\ pc = "cycle"

Queried(q) ==
    /\ pc = "cycle"
    /\ query' = q
    /\ pc' = "queried"
    /\ UNCHANGED << grid, cycle, bombPositions, stepCounter, debugStats, headPos,
                    direction, segments, fruits, missing, nextDir, raised >>

\* indexOf(getCell(index)), for indices below 0 and beyond the length too
GetCellQuery ==
    \E index \in (-cellCount(grid) - 1)..(2 * cellCount(grid) + 1) :
        \E cell \in { getCell(cycle, index) } :
            Queried([kind |-> "getCell", a |-> index, b |-> 0, cell |-> cell,
                     result |-> IF cell = Null THEN -1 ELSE indexOf(cycle, cell[1])])

\* indexOf(pos), for cells of the grid and of the ring around it
IndexOfQuery ==
    \E x \in (grid.minX - 1)..(maxX(grid) + 1), z \in (grid.minZ - 1)..(maxZ(grid) + 1) :
        Queried([kind |-> "indexOf", a |-> 0, b |-> 0, cell |-> Some(Cell(x, z)),
                 result |-> indexOf(cycle, Cell(x, z))])

DistanceForwardQuery ==
    \E fromIndex, toIndex \in 0..(Len(cycle.order) - 1) :
        Queried([kind |-> "distanceForward", a |-> fromIndex, b |-> toIndex, cell |-> Null,
                 result |-> distanceForward(cycle, fromIndex, toIndex)])

NextCycle == GetCellQuery \/ IndexOfQuery \/ DistanceForwardQuery

SpecCycle == InitCycle /\ [][NextCycle]_vars

----------------------------------------------------------------------------
(* Specification SpecCycling: a host moves the snake by the direction       *)
(* getNextDirection returns, as simulateRun does, on a board without fruit  *)

\* the body of the given length that lies along the cycle, its head at the
\* JS index headIndex of the order
BodyAlongCycle(cy, headIndex, length) ==
    [ i \in 1..length |-> getCell(cy, headIndex - (i - 1))[1] ]

HeadingOf(cy, body) ==
    IF Len(body) >= 2
    THEN Cell(body[1].x - body[2].x, body[1].z - body[2].z)
    ELSE LET before == getCell(cy, indexOf(cy, body[1]) - 1)[1]
         IN  Cell(body[1].x - before.x, body[1].z - before.z)

InitCycling ==
    \E g \in { gg \in Grids(MaxLoopDim) : isValid(buildCycle(gg)) } :
        /\ Constructed(g)
        /\ bombPositions = NoBombs
        /\ \/ \E headIndex \in 0..(cellCount(g) - 1), length \in 1..cellCount(g) :
                 segments = BodyAlongCycle(buildCycle(g), headIndex, length)
           \/ /\ g.width <= MaxDim /\ g.height <= MaxDim
              /\ segments \in LegalBodiesUpTo(g, cellCount(g))
        /\ headPos = segments[1]
        /\ direction = HeadingOf(buildCycle(g), segments)
        /\ fruits = << >>
        /\ missing = "none"
        /\ pc = "cycling"

\* one tick: the call, then the move of simulateRun (lines 120-166) with no
\* fruit to eat
CyclingStep ==
    /\ pc = "cycling"
    /\ stepCounter < MaxSteps
    /\ \E out \in { getNextDirection(grid, cycle, bombPositions, stepCounter, debugStats,
                                      segments[1], direction, segments, << >>, "none") } :
        LET head == segments[1]
            dir == IF out.dir # Null
                      /\ ~(out.dir[1].x = -direction.x /\ out.dir[1].z = -direction.z)
                   THEN Cell(out.dir[1].x, out.dir[1].z)
                   ELSE direction
            newHead == Cell(head.x + dir.x, head.z + dir.z)
            hitsSelf == \E i \in 2..(Len(segments) - 1) :
                            segments[i].x = newHead.x /\ segments[i].z = newHead.z
            unshifted == << newHead >> \o segments
        IN  /\ headPos' = head
            /\ nextDir' = out.dir
            /\ raised' = out.raised
            /\ stepCounter' = out.stepCounter
            /\ debugStats' = out.debugStats
            /\ direction' = dir
            /\ IF ~inBounds(grid, newHead)
               THEN pc' = "wall" /\ UNCHANGED segments
               ELSE IF hitsSelf
               THEN pc' = "self" /\ UNCHANGED segments
               ELSE /\ pc' = "cycling"
                    /\ segments' = SubSeq(unshifted, 1, Len(unshifted) - 1)
    /\ UNCHANGED << grid, cycle, bombPositions, fruits, missing, query >>

NextCycling == CyclingStep

SpecCycling == InitCycling /\ [][NextCycling]_vars

----------------------------------------------------------------------------
(* Specification SpecTwin: the loop of simulateRun with a second            *)
(* AIController on the same grid that is given the same arguments at every  *)
(* step; its debugStats differ from the first one's                         *)

\* debugStats of an instance with a history: other mode, counters and label
UsedDebugStats(cy) ==
    [initialDebugStats(cy) EXCEPT !.mode = "fallback", !.shortcutsAccepted = 3,
                                  !.shortcutsRejected = 2, !.emergencyCount = 1,
                                  !.fallbackCount = 4,
                                  !.lastDecision = Decision("fallback", Null),
                                  !.lastSurvivalBuffer = 7]

\* query holds the second instance: its stepCounter, its debugStats and the
\* direction it returned last
Twin(step, stats, dir, threw) ==
    [kind |-> "twin", stepCounter |-> step, debugStats |-> stats, dir |-> dir,
     raised |-> threw]

InitTwin ==
    \E g \in Grids(MaxDim) :
        /\ grid = g
        /\ cycle = buildCycle(g)
        /\ bombPositions = NoBombs
        /\ stepCounter = 0
        /\ debugStats = resetState(initialDebugStats(buildCycle(g)))
        /\ segments \in LegalBodies(g, 3)
        /\ headPos = segments[1]
        /\ direction = Cell(segments[1].x - segments[2].x, segments[1].z - segments[2].z)
        /\ \E fruit \in FreeCells(g, segments) : fruits = << fruit >>
        /\ missing = "none"
        /\ nextDir = Null
        /\ raised = FALSE
        /\ query = Twin(0, UsedDebugStats(buildCycle(g)), Null, FALSE)
        /\ pc = "running"

\* one iteration of the loop of simulateRun; the second instance is called
\* with the arguments of the first
TwinStep ==
    /\ pc = "running"
    /\ stepCounter < MaxSteps
    /\ \E out \in { getNextDirection(grid, cycle, bombPositions, stepCounter, debugStats,
                                      segments[1], direction, segments, fruits, "none") },
          twin \in { getNextDirection(grid, cycle, bombPositions, query.stepCounter,
                                       query.debugStats, segments[1], direction, segments,
                                       fruits, "none") } :
        LET head == segments[1]
            fruit == fruits[1]
            dir == IF out.dir # Null
                      /\ ~(out.dir[1].x = -direction.x /\ out.dir[1].z = -direction.z)
                   THEN Cell(out.dir[1].x, out.dir[1].z)
                   ELSE direction
            newHead == Cell(head.x + dir.x, head.z + dir.z)
            hitsSelf == \E i \in 2..(Len(segments) - 1) :
                            segments[i].x = newHead.x /\ segments[i].z = newHead.z
            ateFruit == newHead.x = fruit.x /\ newHead.z = fruit.z
            unshifted == << newHead >> \o segments
            moved == IF ateFruit THEN unshifted
                     ELSE SubSeq(unshifted, 1, Len(unshifted) - 1)
        IN  /\ headPos' = head
            /\ nextDir' = out.dir
            /\ raised' = out.raised
            /\ stepCounter' = out.stepCounter
            /\ debugStats' = out.debugStats
            /\ query' = Twin(twin.stepCounter, twin.debugStats, twin.dir, twin.raised)
            /\ direction' = dir
            /\ IF ~inBounds(grid, newHead)
               THEN pc' = "wall" /\ UNCHANGED << segments, fruits >>
               ELSE IF hitsSelf
               THEN pc' = "self" /\ UNCHANGED << segments, fruits >>
               ELSE /\ segments' = moved
                    /\ IF Len(moved) >= cellCount(grid)
                       THEN pc' = "filled" /\ UNCHANGED fruits
                       ELSE IF ~ateFruit
                       THEN pc' = "running" /\ UNCHANGED fruits
                       ELSE /\ pc' = "running"
                            /\ \E spawned \in FreeCells(grid, moved) :
                                   fruits' = << spawned >>
    /\ UNCHANGED << grid, cycle, bombPositions, missing >>

NextTwin == TwinStep

SpecTwin == InitTwin /\ [][NextTwin]_vars

----------------------------------------------------------------------------
(* Specification SpecQuery: one call of findPath, floodFill or simulateMove *)
(* on a grid, its arguments and its result kept in query                    *)

InitQuery ==
    \E g \in Grids(MaxDim) :
        /\ Constructed(g)
        /\ bombPositions = NoBombs
        /\ headPos = Cell(0, 0)
        /\ direction = Cell(0, 0)
        /\ segments = << >>
        /\ fruits = << >>
        /\ missing = "none"
        /\ pc = "ask"

Answered(q) ==
    /\ pc = "ask"
    /\ query' = q
    /\ pc' = "answered"
    /\ UNCHANGED << grid, cycle, bombPositions, stepCounter, debugStats, headPos,
                    direction, segments, fruits, missing, nextDir, raised >>

\* the cells of the grid and of the ring around it
CellsAround(g) ==
    { Cell(x, z) : x \in (g.minX - 1)..(maxX(g) + 1), z \in (g.minZ - 1)..(maxZ(g) + 1) }

\* an obstacle set as the array of its cells
ObstacleList(g, obstacleCells) == SelectSeq(forEachCell(g), LAMBDA c : c \in obstacleCells)

FindPathQuery ==
    /\ pc = "ask"
    /\ \E start \in Cells(grid), end \in Cells(grid), obstacleCells \in SUBSET Cells(grid) :
           Answered([kind |-> "findPath", start |-> start, end |-> end,
                     obstacles |-> obstacleCells,
                     result |-> findPath(grid, start, end, ObstacleList(grid, obstacleCells))])

FloodFillQuery ==
    /\ pc = "ask"
    /\ \E start \in CellsAround(grid), obstacleCells \in SUBSET Cells(grid) :
           Answered([kind |-> "floodFill", start |-> start, obstacles |-> obstacleCells,
                     result |-> floodFill(grid, start, ObstacleList(grid, obstacleCells))])

\* simulateMove builds nextSnake from copies of nextPos and of the segments and
\* pops from nextSnake only: the array passed as snake is never written
SimulateMoveQuery ==
    /\ pc = "ask"
    /\ \E snake \in {<< >>} \cup LegalBodiesUpTo(grid, MaxLen),
          hazards \in SeqsUpTo(Cells(grid), MaxBombs),
          nextPos \in CellsAround(grid), grows \in BOOLEAN :
           Answered([kind |-> "simulateMove", snake |-> snake, hazards |-> hazards,
                     nextPos |-> nextPos, grows |-> grows, snakeAfter |-> snake,
                     result |-> simulateMove(grid, [cells |-> hazards, nullEntry |-> FALSE],
                                             snake, nextPos, grows)])

\* the cells of the grid and the cells outside it that touch one of its cells,
\* listed column by column
CellsAndEdgeList(g) ==
    LET all == [ i \in 1..((g.width + 2) * (g.height + 2)) |->
                   Cell(g.minX - 1 + ((i - 1) \div (g.height + 2)),
                        g.minZ - 1 + ((i - 1) % (g.height + 2))) ]
    IN  SelectSeq(all, LAMBDA c : \E d \in Range(getNeighbors(c)) \cup {c} : inBounds(g, d))

\* the fruit lists put to hasReachableFood: up to MaxFruits cells in or around
\* the grid, and on the grids up to MaxCrowdedDim every set of more than
\* maxTargets cells in the grid or touching it, none of them on the head
FruitLists(g, head) ==
    SeqsUpTo(CellsAround(g) \ {head}, MaxFruits)
        \cup (IF g.width <= MaxCrowdedDim /\ g.height <= MaxCrowdedDim
               THEN { SelectSeq(CellsAndEdgeList(g), LAMBDA c : c \in chosen) :
                        chosen \in { c \in SUBSET (Range(CellsAndEdgeList(g)) \ {head}) :
                                       Cardinality(c) > maxTargets } }
               ELSE {})

HasReachableFoodQuery ==
    /\ pc = "ask"
    /\ \E snake \in LegalBodiesUpTo(grid, MaxLen) :
         \E foods \in FruitLists(grid, snake[1]) :
          \E hazards \in IF Len(foods) > MaxFruits THEN {<< >>}
                          ELSE SeqsUpTo(Cells(grid) \ {snake[1]}, MaxBombs) :
           /\ Answered([kind |-> "hasReachableFood", snake |-> snake, hazards |-> hazards,
                        foods |-> foods,
                        result |-> hasReachableFood(grid, [cells |-> hazards, nullEntry |-> FALSE],
                                                    snake[1], snake, foods)])

RECURSIVE WalksFrom(_, _, _)
\* the sequences of 0..n in-bounds cells, the first next to pos, each next
\* to the one before
WalksFrom(g, pos, n) ==
    IF n = 0 THEN { << >> }
    ELSE { << >> } \cup
         UNION { { << d >> \o w : w \in WalksFrom(g, d, n - 1) } :
                 d \in { c \in Range(getNeighbors(pos)) : inBounds(g, c) } }

\* validateShortcutPath on a path that starts next to the head; the target is
\* the end of the path or a cell that is not on it
ValidateShortcutPathQuery ==
    /\ pc = "ask"
    /\ \E snake \in LegalBodiesUpTo(grid, MaxLen) :
         \E path \in WalksFrom(grid, snake[1], MaxPath) \ { << >> },
            hazards \in SeqsUpTo(Cells(grid) \ {snake[1]}, MaxBombs) :
          \E target \in {Last(path), snake[1]} :
           Answered([kind |-> "validateShortcutPath", snake |-> snake, path |-> path,
                     hazards |-> hazards, target |-> target,
                     result |-> validateShortcutPath(grid, cycle,
                                    [cells |-> hazards, nullEntry |-> FALSE],
                                    path, snake, target, << target >>)])

NextQuery ==
    \/ FindPathQuery
    \/ FloodFillQuery
    \/ SimulateMoveQuery
    \/ HasReachableFoodQuery
    \/ ValidateShortcutPathQuery

SpecQuery == InitQuery /\ [][NextQuery]_vars

----------------------------------------------------------------------------
(* Specification SpecEmergency: one getEmergencyDirection call on drawn     *)
(* arguments; query keeps stepCounter and debugStats as they were before    *)

InitEmergency ==
    \E g \in Grids(MaxDim) :
        /\ Constructed(g)
        /\ pc = "ready"
        /\ missing = "none"
        /\ segments \in {<< >>} \cup LegalBodiesUpTo(g, MaxLen) \cup OutOfBoundsBodies(g, 2)
        /\ headPos = IF segments = << >> THEN Cell(0, 0) ELSE segments[1]
        /\ direction \in Range(Dirs) \cup {Cell(0, 0)}
        /\ fruits \in SeqsUpTo(Cells(g), MaxFruits)
        /\ bombPositions \in { [cells |-> c, nullEntry |-> FALSE] :
                                   c \in SeqsUpTo(Cells(g) \ {headPos}, MaxBombs) }

GetEmergencyDirectionCall ==
    /\ pc = "ready"
    /\ \E out \in { getEmergencyDirection(grid, cycle, bombPositions, stepCounter, debugStats,
                                           headPos, direction, segments, fruits) } :
           /\ nextDir' = out.dir
           /\ raised' = out.raised
           /\ stepCounter' = out.stepCounter
           /\ debugStats' = out.debugStats
    /\ query' = [kind |-> "emergency", stepCounter |-> stepCounter, debugStats |-> debugStats]
    /\ pc' = "done"
    /\ UNCHANGED << grid, cycle, bombPositions, headPos, direction, segments, fruits,
                    missing >>

NextEmergency == GetEmergencyDirectionCall

SpecEmergency == InitEmergency /\ [][NextEmergency]_vars

----------------------------------------------------------------------------
(* Specification SpecFruits: one getNextDirection call on a fruit list, and *)
(* the same call by an instance in the same state on the list with one more *)
(* entry: a duplicate, a cell out of bounds or a cell of the body           *)

\* the entries that the spec says are dropped from the fruit input
DroppedEntries(g, body, foodPos) ==
    { [cell |-> c, why |-> "duplicate"] : c \in Range(foodPos) }
        \cup { [cell |-> c, why |-> "out of bounds"] : c \in CellsAround(g) \ Cells(g) }
        \cup { [cell |-> c, why |-> "on the body"] : c \in Range(body) }

InitFruits ==
    \E g \in Grids(MaxDim) :
        /\ Constructed(g)
        /\ pc = "ready"
        /\ missing = "none"
        /\ bombPositions = NoBombs
        /\ segments \in LegalBodiesUpTo(g, MaxLen)
        /\ headPos = segments[1]
        /\ direction = IF Len(segments) >= 2
                       THEN Cell(segments[1].x - segments[2].x, segments[1].z - segments[2].z)
                       ELSE Cell(0, 0)
        /\ fruits \in SeqsUpTo(FreeCells(g, segments), MaxFruits)

\* query keeps the added entry and what the second instance returned
GetNextDirectionWithExtraFruit ==
    /\ pc = "ready"
    /\ \E extra \in DroppedEntries(grid, segments, fruits) :
         \E out \in { getNextDirection(grid, cycle, bombPositions, stepCounter, debugStats,
                                        headPos, direction, segments, fruits, missing) },
            other \in { getNextDirection(grid, cycle, bombPositions, stepCounter, debugStats,
                                          headPos, direction, segments,
                                          Append(fruits, extra.cell), missing) } :
           /\ nextDir' = out.dir
           /\ raised' = out.raised
           /\ stepCounter' = out.stepCounter
           /\ debugStats' = out.debugStats
           /\ query' = [kind |-> "extraFruit", extra |-> extra, dir |-> other.dir,
                        raised |-> other.raised, debugStats |-> other.debugStats]
    /\ pc' = "done"
    /\ UNCHANGED << grid, cycle, bombPositions, headPos, direction, segments, fruits,
                    missing >>

NextFruits == GetNextDirectionWithExtraFruit

SpecFruits == InitFruits /\ [][NextFruits]_vars

----------------------------------------------------------------------------
(* Specification SpecCalls: the methods of one AIController called in any   *)
(* order on one position; query keeps the name of the last call, the        *)
(* stepCounter before it, the number of calls made and the field difficulty *)

LastCall(name, difficulty) ==
    [kind |-> name, stepCounter |-> stepCounter, calls |-> query.calls + 1,
     difficulty |-> difficulty]

Callable == pc = "calls" /\ query.calls < MaxCalls

InitCalls ==
    \E g \in Grids(MaxDim) :
        /\ grid = g
        /\ cycle = buildCycle(g)
        /\ stepCounter = 0
        /\ debugStats = initialDebugStats(buildCycle(g))
        /\ nextDir = Null
        /\ raised = FALSE
        /\ query = [kind |-> "new", stepCounter |-> 0, calls |-> 0, difficulty |-> "normal"]
        /\ pc = "calls"
        /\ missing = "none"
        /\ bombPositions = NoBombs
        /\ segments \in {<< >>} \cup LegalBodiesUpTo(g, 2)
        /\ headPos = IF segments = << >> THEN Cell(0, 0) ELSE segments[1]
        /\ direction = IF Len(segments) >= 2
                       THEN Cell(segments[1].x - segments[2].x, segments[1].z - segments[2].z)
                       ELSE Cell(0, 0)
        /\ fruits \in SeqsUpTo(FreeCells(g, segments), MaxFruits)

CallGetNextDirection ==
    /\ Callable
    /\ \E out \in { getNextDirection(grid, cycle, bombPositions, stepCounter, debugStats,
                                      headPos, direction, segments, fruits, missing) } :
           /\ nextDir' = out.dir
           /\ raised' = out.raised
           /\ stepCounter' = out.stepCounter
           /\ debugStats' = out.debugStats
    /\ query' = LastCall("getNextDirection", query.difficulty)
    /\ UNCHANGED << grid, cycle, bombPositions, headPos, direction, segments, fruits,
                    missing, pc >>

CallGetEmergencyDirection ==
    /\ Callable
    /\ \E out \in { getEmergencyDirection(grid, cycle, bombPositions, stepCounter, debugStats,
                                           headPos, direction, segments, fruits) } :
           /\ nextDir' = out.dir
           /\ raised' = out.raised
           /\ stepCounter' = out.stepCounter
           /\ debugStats' = out.debugStats
    /\ query' = LastCall("getEmergencyDirection", query.difficulty)
    /\ UNCHANGED << grid, cycle, bombPositions, headPos, direction, segments, fruits,
                    missing, pc >>

\* the answer of hasReachableFood goes to the caller; no field is written
CallHasReachableFood ==
    /\ Callable
    /\ segments # << >>
    /\ hasReachableFood(grid, bombPositions, headPos, segments, fruits) \in BOOLEAN
    /\ query' = LastCall("hasReachableFood", query.difficulty)
    /\ UNCHANGED << grid, cycle, bombPositions, stepCounter, debugStats, headPos,
                    direction, segments, fruits, missing, nextDir, raised, pc >>

CallSetBombDangerZones ==
    /\ Callable
    /\ \E zones \in SeqsUpTo(Range(getNeighbors(headPos)) \cap Cells(grid), MaxBombs) :
           bombPositions' = [cells |-> zones, nullEntry |-> FALSE]
    /\ query' = LastCall("setBombDangerZones", query.difficulty)
    /\ UNCHANGED << grid, cycle, stepCounter, debugStats, headPos, direction, segments,
                    fruits, missing, nextDir, raised, pc >>

CallSetDifficulty ==
    /\ Callable
    /\ \E difficulty \in {"easy", "hard"} :
           query' = LastCall("setDifficulty", difficulty)
    /\ UNCHANGED << grid, cycle, bombPositions, stepCounter, debugStats, headPos,
                    direction, segments, fruits, missing, nextDir, raised, pc >>

CallResetState ==
    /\ Callable
    /\ stepCounter' = 0
    /\ debugStats' = resetState(debugStats)
    /\ query' = LastCall("resetState", query.difficulty)
    /\ UNCHANGED << grid, cycle, bombPositions, headPos, direction, segments, fruits,
                    missing, nextDir, raised, pc >>

NextCalls ==
    \/ CallGetNextDirection
    \/ CallGetEmergencyDirection
    \/ CallHasReachableFood
    \/ CallSetBombDangerZones
    \/ CallSetDifficulty
    \/ CallResetState

SpecCalls == InitCalls /\ [][NextCalls]_vars

----------------------------------------------------------------------------
(* Properties of one getNextDirection call (specification Spec)             *)

Called == pc = "done"

\* every argument is present, the body is not empty and lies in bounds
WellFormed ==
    /\ missing = "none"
    /\ ~bombPositions.nullEntry
    /\ segments # << >>
    /\ \A i \in 1..Len(segments) : inBounds(grid, segments[i])

Returned == Called /\ ~raised /\ nextDir # Null

Target == Cell(headPos.x + nextDir[1].x, headPos.z + nextDir[1].z)

Neighbours(pos) == { Cell(pos.x + d.x, pos.z + d.z) : d \in Range(Dirs) }

\* body[0..length-2] and the hazard set
Blockers ==
    { segments[i] : i \in 1..(Len(segments) - 1) } \cup Range(bombPositions.cells)

FreeCell(c) == inBounds(grid, c) /\ c \notin Blockers

\* the neighbour of head that lies against current_dir
ReverseCell == Cell(headPos.x - direction.x, headPos.z - direction.z)

IsUnit(d) == Abs(d.x) + Abs(d.z) = 1

\* C1 as stated: a well-formed call returns d with (a) head+d free, or (b) no
\* neighbour of head free and d = current_dir
C1_Legality ==
    (Called /\ WellFormed) =>
        /\ Returned
        /\ \/ FreeCell(Target)
           \/ /\ \A c \in Neighbours(headPos) : ~FreeCell(c)
              /\ nextDir[1] = direction

\* C1 (amended): a well-formed call returns d with (a) head+d free, or (b) no
\* neighbour of head other than head - current_dir is free and d = current_dir
C1_LegalityExceptReverse ==
    (Called /\ WellFormed) =>
        /\ Returned
        /\ \/ FreeCell(Target)
           \/ /\ \A c \in Neighbours(headPos) \ {ReverseCell} : ~FreeCell(c)
              /\ nextDir[1] = direction

\* a well-formed call where only the cell behind the head is free, and the
\* call gave back current_dir, which leads to a cell that is not free
C1_OnlyReverseFree ==
    /\ Called /\ WellFormed /\ Returned
    /\ IsUnit(direction)
    /\ FreeCell(ReverseCell)
    /\ \A c \in Neighbours(headPos) \ {ReverseCell} : ~FreeCell(c)
    /\ nextDir[1] = direction
    /\ ~FreeCell(Target)
    /\ bombPositions.cells # << >>

\* C2: when current_dir is a unit vector the returned direction is never its
\* inverse, on every return path (the catch block's getSafestMove included)
C2_NoReversal ==
    (Returned /\ IsUnit(direction)) =>
        ~(nextDir[1].x = -direction.x /\ nextDir[1].z = -direction.z)

\* the catch block answered (bombPositions held a null) while the cell behind
\* the head was open and current_dir was a unit vector
C2_CatchPathWithOpenReverse ==
    /\ Returned /\ IsUnit(direction)
    /\ bombPositions.nullEntry
    /\ Len(segments) = 1
    /\ inBounds(grid, ReverseCell)
    /\ nextDir[1] # direction

\* the legal moves of 4.5.1, by their cells: free neighbours of head that do
\* not lie against a unit current_dir
LegalCells ==
    { c \in Neighbours(headPos) : FreeCell(c) /\ ~(IsUnit(direction) /\ c = ReverseCell) }

OddGrid == grid.width % 2 = 1 /\ grid.height % 2 = 1

\* C7: on an odd x odd grid the cycle is not valid, a well-formed call still
\* returns a legal move whenever one exists, and the decision is never
\* labelled cycle or shortcut
C7_OddGridDegrades ==
    OddGrid =>
        /\ ~isValid(cycle)
        /\ (Called /\ WellFormed /\ LegalCells # {}) => (Returned /\ Target \in LegalCells)
        /\ Called => debugStats.lastDecision.kind \notin {"cycle", "shortcut"}

\* on a 3 x 3 grid, with a fruit and two legal moves or more, policy E chose
C7_FallbackOnOddGrid ==
    /\ OddGrid /\ Called /\ WellFormed
    /\ fruits # << >>
    /\ Cardinality(LegalCells) >= 2
    /\ Target \in LegalCells
    /\ debugStats.lastDecision.kind = "fallback"

\* C8 as stated: every call ends by returning a direction, no exception
\* reaches the caller
C8_NeverRaises == Called => (~raised /\ nextDir # Null)

FullBoard == Range(segments) = Cells(grid)

\* C9 as stated: on a full board the call returns current_dir and the label
\* is no-legal-move
C9_FullBoard ==
    (Called /\ WellFormed /\ FullBoard) =>
        /\ Returned
        /\ nextDir[1] = direction
        /\ debugStats.lastDecision.kind = "no-legal-move"

\* C9 (amended): on a full board without a legal move the call returns
\* current_dir and the label is no-legal-move; when the tail cell is a legal
\* move the call returns the move onto the tail and the label is another one
C9_FullBoardUnlessTailIsLegal ==
    (Called /\ WellFormed /\ FullBoard) =>
        /\ Returned
        /\ IF LegalCells = {}
           THEN /\ nextDir[1] = direction
                /\ debugStats.lastDecision.kind = "no-legal-move"
           ELSE /\ Target = Last(segments)
                /\ debugStats.lastDecision.kind # "no-legal-move"

\* a full board whose tail lies behind the head: no legal move
C9_FullBoardNoLegalMove ==
    /\ Called /\ WellFormed /\ FullBoard
    /\ bombPositions.cells = << >>
    /\ LegalCells = {}
    /\ nextDir = Some(direction)
    /\ debugStats.lastDecision.kind = "no-legal-move"

\* C10 as stated: with an empty body, or a head out of bounds, the call
\* returns current_dir and the label is no-legal-move
C10_MalformedInputs ==
    (/\ Called /\ missing = "none" /\ ~bombPositions.nullEntry
     /\ (segments = << >> \/ ~inBounds(grid, headPos))) =>
        /\ Returned
        /\ nextDir[1] = direction
        /\ debugStats.lastDecision.kind = "no-legal-move"

----------------------------------------------------------------------------
(* Properties of HamiltonianCycle (specification SpecCycle)                 *)

Supported ==
    /\ grid.width >= 2 /\ grid.height >= 2
    /\ (grid.width % 2 = 0 \/ grid.height % 2 = 0)

\* C5 as stated: on every grid with width, height >= 2 and one of them even
\* the cycle is valid; on 2 x 2 it has length 4
C5_CycleBuilt ==
    Supported =>
        /\ isValid(cycle)
        /\ (grid.width = 2 /\ grid.height = 2) => Len(cycle.order) = 4

\* C6: a valid cycle has width * height entries, holds every cell in bounds
\* once, and consecutive entries (last to first too) are at Manhattan distance
\* 1; when the cycle is not valid the order and the index map are empty
C6_CycleCoverage ==
    LET order == cycle.order
        n == Len(order)
    IN  IF isValid(cycle)
        THEN /\ n = grid.width * grid.height
             /\ Range(order) = Cells(grid)
             /\ \A i, j \in 1..n : i # j => order[i] # order[j]
             /\ \A i \in 1..n : manhattan(order[i], order[(i % n) + 1]) = 1
        ELSE /\ order = << >>
             /\ DOMAIN cycle.indexByKey = {}

\* a valid cycle over a grid whose origin is not (0, 0)
C6_CycleOverShiftedGrid ==
    /\ grid.width = 4 /\ grid.height = 6
    /\ grid.minX = -2 /\ grid.minZ = -3
    /\ isValid(cycle)
    /\ Len(cycle.order) = 24
    /\ pc = "cycle"

----------------------------------------------------------------------------
(* Properties of the loop of simulateRun (specification SpecHarness)        *)

RECURSIVE Flood(_, _, _)
\* the cells reached from seen by steps between 4-neighbours, in bounds of g
\* and outside blocked
Flood(g, seen, blocked) ==
    LET next == seen \cup { c \in UNION { Neighbours(s) : s \in seen } :
                                inBounds(g, c) /\ c \notin blocked }
    IN  IF next = seen THEN seen ELSE Flood(g, next, blocked)

\* a path leads from the head to the tail that avoids the other segments
HeadReachesTail ==
    Last(segments) \in
        Flood(grid, {segments[1]}, { segments[i] : i \in 2..(Len(segments) - 1) })

\* C3 as stated: on a grid with an even dimension, from any legal body of
\* length 3, no step of the loop is a wall collision or a self collision
C3_SurvivalOnEvenBoards ==
    Supported => pc \notin {"wall", "self"}

\* C4 as stated: on a grid with a valid cycle, every state reached by
\* following getNextDirection has a path from the head to the tail
C4_TailReachable ==
    (isValid(cycle) /\ stepCounter >= 1 /\ pc \in {"running", "filled", "survived-limit"}) =>
        HeadReachesTail

----------------------------------------------------------------------------
(* Properties of the policies (specification Spec)                          *)

\* the body after the head enters cell c and the snake grows by one
Grown(c) == << c >> \o segments

\* fruit cells that are legal moves and whose grown state keeps the
\* cycle-order invariant of 4.5.3
SafeFruitCells ==
    { c \in LegalCells :
        /\ c \in Range(fruits)
        /\ c \notin Range(segments)
        /\ validateCycleOrder(cycle, Grown(c), TRUE) }

\* the grown state has a path from its head to its tail around the body
\* and the hazards
EscapeAfterEating(c) ==
    Last(segments) \in
        Flood(grid, {c},
              { segments[i] : i \in 1..(Len(segments) - 1) }
                  \cup Range(bombPositions.cells))

\* C11 as stated: when a legal move lands on a fruit and the grown state
\* keeps the cycle-order invariant, the call returns a move onto an adjacent
\* fruit, labelled direct-food
C11_PolicyAPriority ==
    (Called /\ WellFormed /\ SafeFruitCells # {}) =>
        /\ Returned
        /\ Target \in Range(fruits)
        /\ debugStats.lastDecision.kind = "direct-food"

\* C11 (amended): the same when the grown state also has an escape route,
\* and the move returned is onto such a fruit
C11_PolicyAPriorityWithEscape ==
    (Called /\ WellFormed /\ \E c \in SafeFruitCells : EscapeAfterEating(c)) =>
        /\ Returned
        /\ Target \in SafeFruitCells
        /\ EscapeAfterEating(Target)
        /\ debugStats.lastDecision.kind = "direct-food"

\* policy A took the adjacent fruit where another legal move existed, on a
\* grid with a valid cycle
C11_DirectFoodTaken ==
    /\ Called /\ WellFormed
    /\ isValid(cycle)
    /\ Len(segments) >= 2
    /\ Cardinality(LegalCells) >= 2
    /\ Target \in SafeFruitCells
    /\ debugStats.lastDecision.kind = "direct-food"

\* C13: a call with a legal body, fruits off the body and at least one legal
\* move returns a move that simulateMove accepts, growing when the cell holds
\* a fruit
C13_SimulatorSoundness ==
    (/\ Called /\ WellFormed
     /\ Range(fruits) \cap Range(segments) = {}
     /\ LegalCells # {}) =>
        /\ Returned
        /\ simulateMove(grid, bombPositions, segments, Target,
                        isFoodCell(Target, normalizeFoodTargets(fruits))) # Null

\* the move returned enters the tail cell, which vacates, with a fruit
\* elsewhere on the board
C13_MoveOntoTail ==
    /\ Called /\ WellFormed
    /\ fruits # << >>
    /\ Range(fruits) \cap Range(segments) = {}
    /\ Len(segments) = 4
    /\ Cardinality(LegalCells) >= 2
    /\ Target = Last(segments)

----------------------------------------------------------------------------
(* Properties of the fruitless loop (specification SpecCycling)             *)

\* each segment is the cycle successor of the segment behind it
AlongCycle(body) ==
    \A i \in 1..(Len(body) - 1) :
        getNextCell(cycle, body[i + 1]) = Some(body[i])

\* the cycle successor of the head is a legal move of 4.5.1 (no hazards)
SuccessorIsLegal ==
    LET successor == getNextCell(cycle, segments[1])[1]
    IN  /\ successor \notin { segments[i] : i \in 2..(Len(segments) - 1) }
        /\ ~(successor.x - segments[1].x = -direction.x
                /\ successor.z - segments[1].z = -direction.z)

\* the tick returns the direction to the cycle successor, labelled cycle
SuccessorTaken ==
    LET successor == getNextCell(cycle, segments[1])[1]
    IN  /\ nextDir' = Some(Cell(successor.x - segments[1].x, successor.z - segments[1].z))
        /\ debugStats'.lastDecision.kind = "cycle"

\* C12: without fruit and with a valid cycle, a call returns the direction
\* to the cycle successor of the head whenever the successor is a legal move;
\* a snake that lies along the cycle stays along it and never runs into a
\* wall or itself, also when it fills the board
C12_CyclingWithoutFruits ==
    /\ [](AlongCycle(segments) => pc \notin {"wall", "self"})
    /\ [][ (pc = "cycling" /\ stepCounter' # stepCounter /\ SuccessorIsLegal)
              => SuccessorTaken ]_vars
    /\ [][ AlongCycle(segments) => AlongCycle(segments') ]_vars

\* a snake that fills a 4 x 4 board has gone around for some ticks
C12_FullBoardCycling ==
    /\ pc = "cycling"
    /\ grid.width = 4 /\ grid.height = 4
    /\ Len(segments) = 16
    /\ AlongCycle(segments)
    /\ stepCounter >= 3
    /\ debugStats.lastDecision.kind = "cycle"

----------------------------------------------------------------------------
(* Properties of two instances (specification SpecTwin)                     *)

\* C14: two instances on the same grid, at the same step counter, given the
\* same arguments step after step return the same directions, whatever their
\* debug counters hold
C14_Determinism ==
    query.kind = "twin" =>
        /\ query.dir = nextDir
        /\ query.raised = raised
        /\ query.stepCounter = stepCounter

\* the two instances have answered several calls, their counters differing
C14_TwinsAgreeAfterSomeSteps ==
    /\ query.kind = "twin"
    /\ stepCounter >= 4
    /\ isValid(cycle)
    /\ Len(segments) >= 4
    /\ query.dir = nextDir /\ nextDir # Null
    /\ query.debugStats.fallbackCount # debugStats.fallbackCount
    /\ query.debugStats.shortcutsAccepted # debugStats.shortcutsAccepted

----------------------------------------------------------------------------
(* Properties of findPath, floodFill and simulateMove (specification        *)
(* SpecQuery)                                                               *)

\* the cells a walk from start reaches by steps between 4-neighbours over
\* in-bounds cells that are no obstacles
ReachableFrom(start, obstacleCells) == Flood(grid, {start}, obstacleCells)

\* path leads from start to end as C15 requires
IsPath(path, start, end, obstacleCells) ==
    /\ Len(path) >= 1
    /\ path[Len(path)] = end
    /\ start \notin Range(path)
    /\ \A i \in 1..Len(path) :
          /\ inBounds(grid, path[i])
          /\ path[i] \notin obstacleCells
          /\ path[i] \in Neighbours(IF i = 1 THEN start ELSE path[i - 1])

\* C15: findPath returns the empty path when start = end; otherwise a path
\* from start to end over in-bounds cells that are no obstacles, start left
\* out, whenever one exists, and null exactly when none exists
C15_FindPathContract ==
    query.kind = "findPath" =>
        LET pathExists == query.end \in ReachableFrom(query.start, query.obstacles)
        IN  IF query.start = query.end THEN query.result = Some(<< >>)
            ELSE /\ (query.result = Null) <=> ~pathExists
                 /\ pathExists =>
                       /\ query.result # Null
                       /\ IsPath(query.result[1], query.start, query.end, query.obstacles)

\* a path around obstacles, longer than the Manhattan distance
C15_PathAroundObstacles ==
    /\ query.kind = "findPath"
    /\ query.result # Null
    /\ query.obstacles # {}
    /\ Len(query.result[1]) > heuristic(query.start, query.end)
    /\ IsPath(query.result[1], query.start, query.end, query.obstacles)

\* a call that returns null: the end is walled off
C15_NoPath ==
    /\ query.kind = "findPath"
    /\ query.result = Null
    /\ query.end \notin query.obstacles

\* the number of in-bounds cells that are no obstacles and 4-connected to start
ConnectedCount(start, obstacleCells) ==
    IF inBounds(grid, start) /\ start \notin obstacleCells
    THEN Cardinality(ReachableFrom(start, obstacleCells))
    ELSE 0

\* C16: floodFill returns the number of in-bounds non-obstacle cells
\* 4-connected to start, 0 when start is out of bounds or an obstacle, and
\* cellCount on a grid without obstacles
C16_FloodFillContract ==
    query.kind = "floodFill" =>
        /\ query.result = ConnectedCount(query.start, query.obstacles)
        /\ (query.obstacles = {} /\ inBounds(grid, query.start))
              => query.result = cellCount(grid)

\* the fill of the whole 3 x 3 grid: the count reaches the cap maxCells
C16_FillReachesCap ==
    /\ query.kind = "floodFill"
    /\ grid.width = 3 /\ grid.height = 3
    /\ query.obstacles = {}
    /\ query.result = 9

\* a fill confined by obstacles to a part of the free cells
C16_FillConfined ==
    /\ query.kind = "floodFill"
    /\ query.result >= 2
    /\ query.result + Cardinality(query.obstacles) < cellCount(grid)

\* the segments simulateMove tests nextPos against: the JS indices 1 and up,
\* the last one left out when the snake does not grow
TestedSegments(snake, grows) ==
    { snake[i] : i \in 2..(IF grows THEN Len(snake) ELSE Len(snake) - 1) }

\* C17: simulateMove returns null exactly when nextPos is out of bounds, a
\* hazard or a tested segment; otherwise nextPos in front of the body, the
\* last segment dropped exactly when the snake does not grow; the body
\* passed in is unchanged
C17_SimulateContract ==
    query.kind = "simulateMove" =>
        LET rejected == \/ ~inBounds(grid, query.nextPos)
                        \/ query.nextPos \in Range(query.hazards)
                        \/ query.nextPos \in TestedSegments(query.snake, query.grows)
            grown == << query.nextPos >> \o query.snake
        IN  /\ (query.result = Null) <=> rejected
            /\ ~rejected =>
                  query.result[1].snake =
                      IF query.grows THEN grown ELSE SubSeq(grown, 1, Len(grown) - 1)
            /\ query.snakeAfter = query.snake

\* a move onto the tail cell of a snake that does not grow is accepted
C17_TailCellAccepted ==
    /\ query.kind = "simulateMove"
    /\ Len(query.snake) = 4
    /\ ~query.grows
    /\ query.nextPos = query.snake[4]
    /\ query.result # Null
    /\ query.result[1].snake = << query.nextPos >> \o SubSeq(query.snake, 1, 3)

----------------------------------------------------------------------------
(* Properties of the index queries (specification SpecCycle)                *)

\* C18: on a valid cycle indexOf(getCell(i)) is the non-negative residue of
\* i modulo the length, for negative i and i beyond the length too; indexOf
\* is -1 for every cell out of bounds
C18_IndexRoundTrip ==
    /\ (query.kind = "getCell" /\ isValid(cycle)) =>
          /\ query.cell # Null
          /\ query.result = query.a % Len(cycle.order)
    /\ (query.kind = "indexOf" /\ ~inBounds(grid, query.cell[1])) => query.result = -1

\* a negative index that is not a multiple of the length is wrapped
C18_NegativeIndexWrapped ==
    /\ query.kind = "getCell"
    /\ isValid(cycle)
    /\ query.a < -Len(cycle.order)
    /\ query.result = query.a + 2 * Len(cycle.order)
    /\ query.result > 0

\* C19: on a valid cycle, for indices in 0..length-1, distanceForward is
\* (toIndex - fromIndex) modulo the length, lies in 0..length-1, is 0 for
\* equal indices, and the two directions add up to the length otherwise
C19_DistanceForward ==
    (query.kind = "distanceForward" /\ isValid(cycle)) =>
        LET n == Len(cycle.order)
            back == distanceForward(cycle, query.b, query.a)
        IN  /\ query.result = (query.b - query.a) % n
            /\ query.result \in 0..(n - 1)
            /\ query.a = query.b => query.result = 0
            /\ query.a # query.b => query.result + back = n

\* the distance from a later index to an earlier one goes round the end
C19_DistanceAcrossTheEnd ==
    /\ query.kind = "distanceForward"
    /\ isValid(cycle)
    /\ query.a > query.b
    /\ query.result = Len(cycle.order) - (query.a - query.b)
    /\ distanceForward(cycle, query.b, query.a) = query.a - query.b

----------------------------------------------------------------------------
(* Properties of one getEmergencyDirection call (specification              *)
(* SpecEmergency)                                                           *)

\* the state after the move to c: c in front, the tail dropped unless c holds
\* a fruit
Successor(c) ==
    IF c \in Range(fruits) THEN << c >> \o segments
    ELSE << c >> \o SubSeq(segments, 1, Len(segments) - 1)

\* the survival score of 4.5.4 of a state
SurvivalScore(state) ==
    LET head == state[1]
        blocked == { state[i] : i \in 2..(Len(state) - 1) } \cup Range(bombPositions.cells)
        openSpace == IF head \in blocked THEN 0
                     ELSE Cardinality(Flood(grid, {head}, blocked))
        openNeighbors == Cardinality({ c \in Neighbours(head) :
                                         inBounds(grid, c) /\ c \notin blocked })
        tailBuffer == IF isValid(cycle) /\ Len(state) >= 2
                      THEN (indexOf(cycle, Last(state)) - indexOf(cycle, head))
                               % Len(cycle.order)
                      ELSE 0
        distances == { manhattan(head, f) : f \in Range(fruits) }
        nearestFruit == IF distances = {} THEN 0
                        ELSE CHOOSE d \in distances : \A e \in distances : d <= e
    IN  6 * openSpace + 55 * openNeighbors + 4 * tailBuffer - 3 * nearestFruit

\* the place of the direction from the head to c in the order up, down,
\* left, right
Rank(c) == CHOOSE i \in 1..4 : Cell(headPos.x + Dirs[i].x, headPos.z + Dirs[i].z) = c

C20_BestIsNotFirst ==
    /\ query.kind = "emergency"
    /\ nextDir # Null
    /\ Range(fruits) \cap Range(segments) = {}
    /\ \E c \in LegalCells : Rank(c) < Rank(Target)

----------------------------------------------------------------------------
(* Properties of hasReachableFood (specification SpecQuery)                 *)

\* the number of fruits that come before the i-th one when the list is
\* sorted by Manhattan distance to the head, equal distances in list order
FruitsBefore(i) ==
    LET d(k) == manhattan(query.snake[1], query.foods[k])
    IN  Cardinality({ j \in 1..Len(query.foods) :
                        d(j) < d(i) \/ (d(j) = d(i) /\ j < i) })

\* a 4-connected in-bounds path leads from the head to the fruit that avoids
\* the hazards and every segment but the tail
FruitReachable(f) ==
    LET blocked == { query.snake[i] : i \in 1..(Len(query.snake) - 1) }
                       \cup Range(query.hazards)
    IN  f \in Flood(grid, {query.snake[1]}, blocked)

\* C21: hasReachableFood is true exactly when one of the 6 fruits nearest to
\* the head is reachable from the head around the hazards and the body
\* without its tail; it is false without fruits and writes no field
C21_HasReachableFood ==
    query.kind = "hasReachableFood" =>
        /\ query.result <=>
              \E i \in 1..Len(query.foods) :
                  FruitsBefore(i) < 6 /\ FruitReachable(query.foods[i])
        /\ query.foods = << >> => ~query.result
        /\ stepCounter = 0
        /\ debugStats = initialDebugStats(cycle)
        /\ bombPositions = NoBombs

\* the only reachable fruit is the seventh nearest: the answer is false
C21_ReachableFruitBeyondSix ==
    /\ query.kind = "hasReachableFood"
    /\ ~query.result
    /\ Len(query.foods) >= 7
    /\ \E i \in 1..Len(query.foods) :
          FruitsBefore(i) >= 6 /\ FruitReachable(query.foods[i])

\* a fruit on the tail cell counts as reachable
C21_FruitBehindTheTail ==
    /\ query.kind = "hasReachableFood"
    /\ query.result
    /\ Len(query.snake) >= 3
    /\ query.foods = << Last(query.snake) >>

----------------------------------------------------------------------------
(* Properties of the fruit input (specification SpecFruits)                 *)

\* C22 as stated: adding a duplicate, a cell out of bounds or a cell of the
\* body to the fruit input does not change the direction getNextDirection
\* returns
C22_FruitFiltering ==
    query.kind = "extraFruit" => query.dir = nextDir

----------------------------------------------------------------------------
(* Properties of stepCounter (specification SpecCalls)                      *)

\* C23: getNextDirection adds exactly 1 to stepCounter, on the returns for an
\* empty body and for no legal move too, and debugStats.step equals
\* stepCounter after it; getEmergencyDirection, hasReachableFood,
\* setBombDangerZones and setDifficulty leave stepCounter; resetState sets it
\* to 0
C23_StepCounter ==
    /\ query.kind = "getNextDirection" =>
          /\ stepCounter = query.stepCounter + 1
          /\ debugStats.step = stepCounter
    /\ query.kind \in {"getEmergencyDirection", "hasReachableFood", "setBombDangerZones",
                        "setDifficulty"} => stepCounter = query.stepCounter
    /\ query.kind = "resetState" => stepCounter = 0

\* the second call in a row that returns for an empty body still counts
C23_EmptyBodyCounts ==
    /\ query.kind = "getNextDirection"
    /\ segments = << >>
    /\ query.stepCounter = 1
    /\ stepCounter = 2
    /\ debugStats.step = 2

\* a call without a legal move counts, after a reset of a counter that had
\* advanced
C23_NoLegalMoveCounts ==
    /\ query.kind = "getNextDirection"
    /\ debugStats.lastDecision.kind = "no-legal-move"
    /\ bombPositions.cells # << >>
    /\ query.stepCounter = 1
    /\ stepCounter = 2

----------------------------------------------------------------------------
(* Specification SpecArbitration: the choice of getNextDirection between    *)
(* the cycle move and the shortcut move, on the grid of the host with a     *)
(* body along the cycle whose length is at either side of a length band     *)

BandLengths == {59, 60, 69, 70, 139, 140}

\* what getBestShortcutMove can hand to the arbitration: nothing on the steps
\* it skips, else nothing or a validated move (validateShortcutPath leaves
\* survivalBuffer above max(1, floor(length * 0.035)))
ShortcutMoves(step, length, move) ==
    LET interval == IF length < 90 THEN 1 ELSE IF length < 180 THEN 2 ELSE 3
    IN  IF jsRem(step, interval) # 0 THEN { Null }
        ELSE { Null } \cup
             { Some([dir |-> move.dir, pos |-> move.pos, score |-> score,
                     kind |-> "shortcut", reason |-> Some(move.pos),
                     survivalBuffer |-> buffer, foodGain |-> foodGain,
                     pathLength |-> pathLength]) :
                 score \in {380, 390}, buffer \in {3, 4, 7, 8} \ 0..Max(1, (length * 35) \div 1000),
                 foodGain \in {0, 1}, pathLength \in {6, 8, 9} }

\* what getCycleBaselineMove can hand to it: nothing or the successor move,
\* scored 380 + 1.2 * survivalBuffer (times 5 here)
CycleMoves(move) ==
    { Null } \cup
    { Some([dir |-> move.dir, pos |-> move.pos, score |-> 5 * 380 + buffer * 6,
            kind |-> "cycle", reason |-> Null, survivalBuffer |-> buffer]) :
        buffer \in {10, 20} }

InitArbitration ==
    /\ grid = GridBounds(gridSize, gridSize)
    /\ cycle = buildCycle(grid)
    /\ \E length \in BandLengths, step \in 0..(MaxTicks - 1) :
        /\ stepCounter = step
        /\ debugStats = [initialDebugStats(cycle) EXCEPT !.step = step]
        /\ segments = BodyAlongCycle(cycle, length - 1, length)
        /\ direction = HeadingOf(cycle, segments)
    /\ headPos = segments[1]
    /\ bombPositions = NoBombs
    /\ fruits = << >>
    /\ missing = "none"
    /\ nextDir = Null
    /\ raised = FALSE
    /\ query = NoQuery
    /\ pc = "arbitrate"

\* getNextDirection from the increment of stepCounter on, when policies A and
\* B gave nothing and the choice is made without the fallback (there is a
\* cycle move, or a shortcut move that shouldPrioritizeShortcut lets through)
Arbitrate ==
    /\ pc = "arbitrate"
    /\ \E move \in { getValidMoves(grid, bombPositions, headPos, direction, segments)[1] } :
        \E shortcutMove \in ShortcutMoves(stepCounter + 1, Len(segments), move),
           cycleMove \in CycleMoves(move) :
          /\ \/ cycleMove # Null
             \/ shouldPrioritizeShortcut(stepCounter + 1, shortcutMove, cycleMove,
                                         Len(segments))
          /\ \E out \in { selectMove(grid, cycle, bombPositions, stepCounter + 1,
                                      [debugStats EXCEPT !.step = stepCounter + 1],
                                      << move >>, segments, fruits, cycleMove,
                                      [best |-> shortcutMove, rejected |-> 0]) } :
               /\ nextDir' = out.dir
               /\ raised' = out.raised
               /\ stepCounter' = out.stepCounter
               /\ debugStats' = out.debugStats
          /\ query' = [kind |-> "arbitration", shortcutMove |-> shortcutMove,
                       cycleMove |-> cycleMove]
    /\ pc' = "arbitrated"
    /\ UNCHANGED << grid, cycle, bombPositions, headPos, direction, segments, fruits,
                    missing >>

NextArbitration == Arbitrate

SpecArbitration == InitArbitration /\ [][NextArbitration]_vars

----------------------------------------------------------------------------
(* Specification SpecChase: one getNextDirection call with fruits, on small *)
(* grids (one fruit, or five fruit entries in or around the 2x2 grid) and   *)
(* on a grid that holds a body of 18 or 19 segments along the cycle         *)

maxChaseTargets == 4

\* the direction the head moved in last; any direction for a single segment
Headings(body) ==
    IF Len(body) >= 2 THEN { Cell(body[1].x - body[2].x, body[1].z - body[2].z) }
    ELSE Range(Dirs)

\* one hazard next to the head, or none
HazardsNear(g, head) ==
    { NoBombs } \cup
    { [cells |-> << c >>, nullEntry |-> FALSE] :
        c \in { d \in Range(getNeighbors(head)) : inBounds(g, d) } }

\* lists of maxChaseTargets + 1 distinct entries in or around the grid
CrowdedFruitLists(g, head) ==
    { SelectSeq(CellsAndEdgeList(g), LAMBDA c : c \in chosen) :
        chosen \in { c \in SUBSET (Range(CellsAndEdgeList(g)) \ {head}) :
                       Cardinality(c) = maxChaseTargets + 1 } }

InitChase ==
    /\ missing = "none"
    /\ pc = "ready"
    /\ \/ \E g \in Grids(MaxDim) :
             /\ Constructed(g)
             /\ segments \in LegalBodiesUpTo(g, MaxLen)
             /\ \/ /\ fruits \in { << c >> : c \in Cells(g) \ {segments[1]} }
                   /\ bombPositions \in HazardsNear(g, segments[1])
                \/ /\ g.width <= MaxCrowdedDim /\ g.height <= MaxCrowdedDim
                   /\ fruits \in CrowdedFruitLists(g, segments[1])
                   /\ bombPositions = NoBombs
       \/ \E g \in { GridBounds(MaxCycleDim, 4) } :
             /\ Constructed(g)
             /\ \E headIndex \in 0..(cellCount(g) - 1), length \in {18, 19} :
                    segments = BodyAlongCycle(buildCycle(g), headIndex, length)
             /\ fruits \in { << c >> : c \in Cells(g) \ Range(segments) }
             /\ bombPositions = NoBombs
    /\ headPos = segments[1]
    /\ direction \in Headings(segments)

NextChase == GetNextDirectionCall

SpecChase == InitChase /\ [][NextChase]_vars

----------------------------------------------------------------------------
(* Specification SpecRun: the loop of simulateRun from its own start, a     *)
(* body of 3 segments in a row that heads in direction (1, 0) along the     *)
(* cycle, on the grids with a valid cycle; SpecRunFair adds that the loop   *)
(* goes on                                                                  *)

InitRun ==
    \E g \in { gg \in Grids(MaxLoopDim) : isValid(buildCycle(gg)) } :
        /\ grid = g
        /\ cycle = buildCycle(g)
        /\ bombPositions = NoBombs
        /\ stepCounter = 0
        /\ debugStats = resetState(initialDebugStats(buildCycle(g)))
        /\ \E headIndex \in 0..(cellCount(g) - 1) :
               segments = BodyAlongCycle(buildCycle(g), headIndex, 3)
        /\ \A i \in 1..2 : /\ segments[i].x - segments[i + 1].x = 1
                            /\ segments[i].z = segments[i + 1].z
        /\ headPos = segments[1]
        /\ direction = Cell(1, 0)
        /\ \E fruit \in FreeCells(g, segments) : fruits = << fruit >>
        /\ missing = "none"
        /\ nextDir = Null
        /\ raised = FALSE
        /\ query = NoQuery
        /\ pc = "running"

\* one iteration of the for loop
RunStep ==
    /\ stepCounter < MaxRunSteps
    /\ HarnessStep

\* the loop ends at options.steps
RunLimit ==
    /\ pc = "running"
    /\ stepCounter >= MaxRunSteps
    /\ pc' = "survived-limit"
    /\ UNCHANGED << grid, cycle, bombPositions, stepCounter, debugStats, headPos,
                    direction, segments, fruits, missing, nextDir, raised, query >>

NextRun == RunStep \/ RunLimit

SpecRun == InitRun /\ [][NextRun]_vars

\* what every iteration does to stepCounter: getNextDirection is called with
\* a body that is not empty
Iteration ==
    /\ pc = "running"
    /\ stepCounter < MaxRunSteps
    /\ stepCounter' = stepCounter + 1

\* the for loop runs its next iteration, or ends at the limit, as long as it
\* has not returned
SpecRunFair == SpecRun /\ WF_stepCounter(Iteration) /\ WF_vars(RunLimit)

----------------------------------------------------------------------------
(* Snake and the game loop of the host (autopilot on, no bomb, no power-up, *)
(* batches of one fruit)                                                    *)

aiNoPathAssistThreshold == 20
aiStallGrowthInterval == 16

\* Snake.reset: three segments in a row heading (1, 0)
resetSnake(g) ==
    LET startX == Max(g.minX + 2, -1)
        startZ == Max(g.minZ + 1, 0)
    IN  [segments |-> [ i \in 1..3 |-> Cell(startX - (i - 1), startZ) ],
         direction |-> Cell(1, 0), length |-> 3, growPending |-> 0]

\* Snake.move: the snake after the call and the collision it reports ("none",
\* "wall" or "self"); newDirection is Null or Some(direction)
move(g, snake, newDirection) ==
    LET isOpposite ==
            \/ newDirection[1].x = -snake.direction.x /\ snake.direction.x # 0
            \/ newDirection[1].z = -snake.direction.z /\ snake.direction.z # 0
        dir == IF newDirection # Null /\ ~isOpposite
               THEN Cell(newDirection[1].x, newDirection[1].z)
               ELSE snake.direction
        turned == [snake EXCEPT !.direction = dir]
        head == snake.segments[1]
        newHead == Cell(head.x + dir.x, head.z + dir.z)
        willGrow == snake.growPending > 0
        n == Len(snake.segments)
        hitsSelf == \E i \in 2..n :
                        /\ ~(i = n /\ ~willGrow)
                        /\ snake.segments[i].x = newHead.x
                        /\ snake.segments[i].z = newHead.z
        unshifted == << newHead >> \o snake.segments
    IN  IF ~inBounds(g, newHead) THEN [snake |-> turned, collision |-> "wall"]
        ELSE IF hitsSelf THEN [snake |-> turned, collision |-> "self"]
        ELSE IF willGrow
        THEN [snake |-> [turned EXCEPT !.segments = unshifted,
                                       !.growPending = @ - 1, !.length = @ + 1],
              collision |-> "none"]
        ELSE [snake |-> [turned EXCEPT !.segments = SubSeq(unshifted, 1, n)],
              collision |-> "none"]

\* Snake.grow
grow(snake) == [snake EXCEPT !.growPending = @ + 1]

----------------------------------------------------------------------------
(* Specification SpecHost: the moves of the game loop of the host           *)

\* the fields of Snake and of the game besides segments and direction, and
\* what the last tick did: the body at its start, the direction asked of
\* getNextDirection and of getEmergencyDirection, what Snake.move reported
HostState(snake, ticks, noFoodPathTicks, stepsWithoutFood, before, pendingBefore, asked, first, emergency, second) ==
    [kind |-> "host", length |-> snake.length, growPending |-> snake.growPending,
     ticks |-> ticks, aiNoFoodPathTicks |-> noFoodPathTicks,
     aiStepsWithoutFood |-> stepsWithoutFood,
     before |-> before, pendingBefore |-> pendingBefore,
     asked |-> asked, first |-> first, emergency |-> emergency, second |-> second]

InitHost ==
    \E g \in { gg \in Grids(MaxLoopDim) : gg.width >= 3 } :
        /\ grid = g
        /\ cycle = buildCycle(g)
        /\ bombPositions = NoBombs
        /\ stepCounter = 0
        /\ debugStats = resetState(initialDebugStats(buildCycle(g)))
        /\ segments = resetSnake(g).segments
        /\ direction = resetSnake(g).direction
        /\ headPos = segments[1]
        /\ \E fruit \in FreeCells(g, segments) : fruits = << fruit >>
        /\ missing = "none"
        /\ nextDir = Null
        /\ raised = FALSE
        /\ query = HostState(resetSnake(g), 0, 0, 0, << >>, 0, Null, "none", Null, "none")
        /\ pc = "playing"

\* one move of the snake in update: the anti-stuck recovery, the call of the
\* autopilot, Snake.move, the retry with getEmergencyDirection after a
\* collision, then the win test, the fruit and the stall recovery
HostTick ==
    /\ pc = "playing"
    /\ query.ticks < MaxHostTicks
    /\ \E asked \in { getNextDirection(grid, cycle, bombPositions, stepCounter, debugStats,
                                        segments[1], direction, segments, fruits, "none") },
          stuck \in { ~hasReachableFood(grid, bombPositions, segments[1], segments, fruits) } :
       \E first \in { move(grid, [segments |-> segments, direction |-> direction,
                                  length |-> query.length,
                                  growPending |-> query.growPending], asked.dir) },
          recovered \in IF stuck /\ query.aiNoFoodPathTicks + 1 > aiNoPathAssistThreshold
                            /\ FreeCells(grid, segments) # {}
                        THEN { << c >> : c \in FreeCells(grid, segments) }
                        ELSE { fruits } :
        \E emergency \in { IF first.collision # "none"
                            THEN getEmergencyDirection(grid, cycle, bombPositions,
                                     asked.stepCounter, asked.debugStats,
                                     first.snake.segments[1], first.snake.direction,
                                     first.snake.segments, recovered)
                            ELSE Outcome(Null, FALSE, asked.stepCounter, asked.debugStats) } :
         \E second \in { IF first.collision # "none" /\ emergency.dir # Null
                          THEN move(grid, first.snake, emergency.dir)
                          ELSE first } :
          \E ate \in { second.collision = "none"
                          /\ second.snake.segments[1] \in Range(recovered) } :
           \E snake \in { IF ate THEN grow(second.snake) ELSE second.snake } :
            LET noFoodPathTicks ==
                    IF stuck /\ query.aiNoFoodPathTicks + 1 <= aiNoPathAssistThreshold
                    THEN query.aiNoFoodPathTicks + 1 ELSE 0
                left == SelectSeq(recovered, LAMBDA f : f # snake.segments[1])
                stalled == ~ate /\ query.aiStepsWithoutFood + 1 >= aiStallGrowthInterval
                               /\ left = << >>
                stepsWithoutFood ==
                    IF ate \/ stalled THEN 0 ELSE query.aiStepsWithoutFood + 1
                done(state) ==
                    /\ pc' = state
                    /\ fruits' = IF ate THEN left ELSE recovered
            IN  /\ nextDir' = asked.dir
                /\ raised' = asked.raised \/ emergency.raised
                /\ stepCounter' = emergency.stepCounter
                /\ debugStats' = emergency.debugStats
                /\ segments' = snake.segments
                /\ direction' = snake.direction
                /\ headPos' = segments[1]
                /\ query' = HostState(snake, query.ticks + 1, noFoodPathTicks,
                                      stepsWithoutFood, segments, query.growPending,
                                      asked.dir, first.collision,
                                      emergency.dir,
                                      IF first.collision # "none" /\ emergency.dir # Null
                                      THEN second.collision ELSE "none")
                /\ IF second.collision # "none" THEN done("over")
                   ELSE IF second.snake.length >= cellCount(grid) THEN done("won")
                   ELSE IF (ate /\ left = << >>) \/ stalled
                   THEN IF FreeCells(grid, snake.segments) = {}
                        THEN done("won")
                        ELSE /\ pc' = "playing"
                             /\ \E spawned \in FreeCells(grid, snake.segments) :
                                    fruits' = << spawned >>
                   ELSE done("playing")
    /\ UNCHANGED << grid, cycle, bombPositions, missing >>

NextHost == HostTick

SpecHost == InitHost /\ [][NextHost]_vars

----------------------------------------------------------------------------
(* Properties of validateShortcutPath (specification SpecQuery)             *)

\* the step i of the path of the query is the growing step
GrowingStep(i) == i = Len(query.path) /\ query.path[i] = query.target

RECURSIVE StateAfter(_)
\* the body after the first i steps of the path of the query
StateAfter(i) ==
    IF i = 0 THEN query.snake
    ELSE LET moved == << query.path[i] >> \o StateAfter(i - 1)
         IN  IF GrowingStep(i) THEN moved ELSE SubSeq(moved, 1, Len(moved) - 1)

\* step i is legal in the state before it: in bounds, no hazard, no segment
\* other than the head and, when the snake does not grow, the tail
StepLegal(i) ==
    LET before == StateAfter(i - 1)
        last == IF GrowingStep(i) THEN Len(before) ELSE Len(before) - 1
    IN  /\ inBounds(grid, query.path[i])
        /\ query.path[i] \notin Range(query.hazards)
        /\ query.path[i] \notin { before[k] : k \in 2..last }

\* the cycle-order invariant of 4.5.3 in the state after step i
OrderKept(i) ==
    LET state == StateAfter(i)
        gap == (indexOf(cycle, Last(state)) - indexOf(cycle, state[1])) % Len(cycle.order)
        baseGap == IF GrowingStep(i) THEN 2 ELSE 1
    IN  gap > Max(baseGap, (Len(state) * 8) \div 100)

\* the state has a path from its head to its tail around the other segments
\* and the hazards
EscapeRoute(state) ==
    Last(state) \in Flood(grid, {state[1]},
                          { state[k] : k \in 2..(Len(state) - 1) }
                              \cup Range(query.hazards))

\* C24: a path that validateShortcutPath accepts has every step legal in the
\* state simulated up to it, every state after a step within the cycle-order
\* invariant (gap above max(baseGap, floor(length * 0.08)), baseGap 2 on the
\* growing step and 1 otherwise), and an escape route in its last state
C24_ShortcutValidation ==
    (query.kind = "validateShortcutPath" /\ query.result.safe) =>
        /\ isValid(cycle)
        /\ \A i \in 1..Len(query.path) : StepLegal(i) /\ OrderKept(i)
        /\ EscapeRoute(StateAfter(Len(query.path)))

\* an accepted path of two steps or more that leaves the cycle and ends on
\* the target
C24_TwoStepShortcutAccepted ==
    /\ query.kind = "validateShortcutPath"
    /\ query.result.safe
    /\ Len(query.path) >= 2
    /\ Len(query.snake) >= 2
    /\ GrowingStep(Len(query.path))
    /\ query.path[1] # getNextCell(cycle, query.snake[1])[1]

----------------------------------------------------------------------------
(* Properties of the arbitration (specification SpecArbitration)            *)

\* the bands of 4.5.2: tolerance 18, 12, 8 and interval 1, 2, 3 below 60,
\* below 140 and from 140 on
Band(length) == IF length < 60 THEN 1 ELSE IF length < 140 THEN 2 ELSE 3

Tolerance(length) == << 18, 12, 8 >>[Band(length)]

\* the three reasons to leave the cycle when a cycle move exists
ShortPath == query.shortcutMove[1].pathLength <= (IF Len(segments) < 70 THEN 8 ELSE 6)

FoodGained == query.shortcutMove[1].foodGain >= 1

ProactiveStep == stepCounter % Band(Len(segments)) = 0

\* C25: when getNextDirection decides for the shortcut, the shortcut's
\* survival buffer is above max(3, floor(length * 0.05)) and, if there is a
\* cycle move, the shortcut's score is at least the cycle move's score minus
\* the tolerance of the band and the path is short, or gains food, or the
\* step is a proactive one; otherwise the cycle move is taken when it exists
C25_Arbitration ==
    query.kind = "arbitration" =>
        IF debugStats.lastDecision.kind = "shortcut"
        THEN /\ query.shortcutMove # Null
             /\ query.shortcutMove[1].survivalBuffer
                    > Max(3, (Len(segments) * 5) \div 100)
             /\ query.cycleMove # Null =>
                    /\ 5 * query.shortcutMove[1].score
                          >= query.cycleMove[1].score - 5 * Tolerance(Len(segments))
                    /\ ShortPath \/ FoodGained \/ ProactiveStep
             /\ nextDir = Some(query.shortcutMove[1].dir)
        ELSE query.cycleMove # Null =>
                /\ debugStats.lastDecision.kind = "cycle"
                /\ nextDir = Some(query.cycleMove[1].dir)

\* a shortcut taken against a cycle move only because the step is a
\* proactive one, by a snake of 60 segments or more
C25_ShortcutOnProactiveStep ==
    /\ query.kind = "arbitration"
    /\ debugStats.lastDecision.kind = "shortcut"
    /\ query.cycleMove # Null
    /\ Len(segments) >= 60
    /\ ~ShortPath /\ ~FoodGained

\* a cycle move kept although the shortcut's buffer and score are enough,
\* because the step is not a proactive one
C25_CycleMoveKept ==
    /\ query.kind = "arbitration"
    /\ debugStats.lastDecision.kind = "cycle"
    /\ query.shortcutMove # Null
    /\ query.shortcutMove[1].survivalBuffer > Max(3, (Len(segments) * 5) \div 100)
    /\ 5 * query.shortcutMove[1].score
          >= query.cycleMove[1].score - 5 * Tolerance(Len(segments))

----------------------------------------------------------------------------
(* Properties of policy B (specification SpecChase)                         *)

\* the fruit entries ahead of entry i in the order of Manhattan distance to
\* the head, equal distances in list order
NearerFruits(i) ==
    LET d(k) == manhattan(headPos, fruits[k])
    IN  Cardinality({ j \in 1..Len(fruits) : d(j) < d(i) \/ (d(j) = d(i) /\ j < i) })

\* the A* path from the head to fruit i around body[0..length-2] and the
\* hazards starts with the cell moved to
PathStartsWithMove(i) ==
    LET path == findPath(grid, headPos, fruits[i],
                         SubSeq(segments, 1, Len(segments) - 1) \o bombPositions.cells)
    IN  path # Null /\ Len(path[1]) >= 1 /\ path[1][1] = Target

\* the body after the move: it keeps its tail when the cell holds a fruit
AfterMove ==
    IF Target \in Range(fruits) THEN Grown(Target)
    ELSE SubSeq(Grown(Target), 1, Len(segments))

\* the head after the move reaches the tail around the other segments and the
\* hazards
EscapeAfterMove ==
    Len(AfterMove) >= 2 =>
        Last(AfterMove) \in Flood(grid, {Target},
                                  { AfterMove[k] : k \in 2..(Len(AfterMove) - 1) }
                                      \cup Range(bombPositions.cells))

\* C26: when getNextDirection decides early-chase, the body has at most 18
\* segments, the move is the first step of the A* path from the head to one of
\* the 4 fruits nearest to the head, and the state after the move has an
\* escape route
C26_EarlyChase ==
    (Called /\ debugStats.lastDecision.kind = "early-chase") =>
        /\ Len(segments) <= 18
        /\ Returned
        /\ \E i \in 1..Len(fruits) : NearerFruits(i) < 4 /\ PathStartsWithMove(i)
        /\ EscapeAfterMove

\* an early chase by a body of 18 segments
C26_ChaseAtEighteen ==
    /\ Called
    /\ debugStats.lastDecision.kind = "early-chase"
    /\ Len(segments) = 18

\* no early chase although the path to the fifth nearest fruit would do
C26_FifthFruitIgnored ==
    /\ Called
    /\ Returned
    /\ debugStats.lastDecision.kind # "early-chase"
    /\ Len(fruits) > 4
    /\ \E i \in 1..Len(fruits) :
          /\ NearerFruits(i) = 4
          /\ findPath(grid, headPos, fruits[i],
                      SubSeq(segments, 1, Len(segments) - 1)) # Null

----------------------------------------------------------------------------
(* Properties of the runs of simulateRun (specifications SpecRun and        *)
(* SpecRunFair)                                                             *)

\* C27 as stated: every run ends with reason filled (the runs that the step
\* limit of the model cuts short are let through)
C27_EventualFill == <>(pc \in {"filled", "survived-limit"})

\* the steps on the cycle from the tail forward to cell c
FromTail(c) ==
    (indexOf(cycle, c) - indexOf(cycle, Last(segments))) % Len(cycle.order)

\* walking the cycle forward from the tail meets the segments in order from
\* the tail to the head
CycleOrdered ==
    \A i \in 1..(Len(segments) - 1) : FromTail(segments[i]) > FromTail(segments[i + 1])

\* C28 as stated: every body reached in the loop is cycle-ordered
C28_CycleOrderedBody ==
    pc \in {"running", "filled", "survived-limit"} => CycleOrdered

----------------------------------------------------------------------------
(* Properties of findPath: the length of the path (specification SpecQuery) *)

RECURSIVE StepsTo(_, _, _, _, _)
\* breadth first: the number of 4-connected steps from the cells of frontier
\* (reached after d steps) to the cell end over the in-bounds cells that are
\* not blocked; -1 when end is out of reach
StepsTo(frontier, seen, blocked, end, d) ==
    IF end \in frontier THEN d
    ELSE LET next == { c \in UNION { Neighbours(s) : s \in frontier } :
                         inBounds(grid, c) /\ c \notin blocked /\ c \notin seen }
         IN  IF next = {} THEN -1
             ELSE StepsTo(next, seen \cup next, blocked, end, d + 1)

\* C29: a path that findPath returns has the length of the breadth-first
\* shortest 4-connected distance from start to end over the in-bounds cells
\* that are no obstacles
C29_ShortestPath ==
    (query.kind = "findPath" /\ query.result # Null) =>
        Len(query.result[1])
            = StepsTo({query.start}, {query.start}, query.obstacles, query.end, 0)

\* a shortest path that has to go around obstacles: it is longer than the
\* Manhattan distance
C29_ShortestDetour ==
    /\ query.kind = "findPath"
    /\ query.result # Null
    /\ Len(query.result[1]) >= manhattan(query.start, query.end) + 4

----------------------------------------------------------------------------
(* Properties of the host game loop (specification SpecHost)                *)

\* the direction leads from the head of the body to its tail cell and is no
\* reversal
OntoTail(body, heading, dir) ==
    /\ dir # Null
    /\ Len(body) >= 3
    /\ Cell(body[1].x + dir[1].x, body[1].z + dir[1].z) = Last(body)
    /\ ~(dir[1].x = -heading.x /\ dir[1].z = -heading.z)

\* C30 as stated: a direction from getNextDirection, or from
\* getEmergencyDirection on the retry, that moves the head onto the tail cell
\* never makes Snake.move report a self collision
C30_TailVacates ==
    (query.kind = "host" /\ query.ticks >= 1) =>
        /\ OntoTail(query.before, Cell(query.before[1].x - query.before[2].x,
                                       query.before[1].z - query.before[2].z),
                    query.asked)
              => query.first # "self"
        /\ (query.first # "none"
              /\ OntoTail(query.before, direction, query.emergency))
              => query.second # "self"

====
